---- MODULE Spec2Model ----
(***************************************************************************)
(* Model of the bookmark import pipeline (bookmarks_importer.py) of        *)
(* portainer-bookmarks: slugify, sanitize_filename, the File Writer        *)
(* create_bookmark_file, the four format parsers, detect_file_format and   *)
(* import_file; and of slugify and search_bookmarks of                     *)
(* bookmarks_manager.py.                                                   *)
(*                                                                         *)
(* Text is a sequence of one-character strings.  A Python value is a       *)
(* record [t, v, keys, vals]: t = "str" with the text v, t = "none" for a falsy  *)
(* non-string (None, 0), t = "obj" for a truthy scalar that is no string   *)
(* (5, True), t = "list" with the elements vals, t = "dict" with the keys  *)
(* keys (one-token texts, in iteration order) and their values vals.       *)
(***************************************************************************)
EXTENDS Integers, Sequences, FiniteSets, TLC

VARIABLES fs, clock, hist

vars == <<fs, clock, hist>>

----------------------------------------------------------------------------
(* Bounds of the model. *)

MaxWrites == 3
MaxClock == 2
MaxImports == 1

----------------------------------------------------------------------------
(* Text primitives: str.lower, str.strip, re.sub, str.join. *)

Whitespace == {" "}

(* letters outside ASCII: e with acute accent (U+00E9), its capital        *)
(* (U+00C9), o with stroke (U+00F8), and the combining acute accent        *)
(* (U+0301) that the decomposition of the first two yields                 *)
EAcute == "\\u00e9"
EAcuteUpper == "\\u00c9"
OSlash == "\\u00f8"
CombiningAcute == "\\u0301"

NonAscii == {EAcute, EAcuteUpper, OSlash, CombiningAcute}

Lowercase ==
    {"a", "b", "c", "d", "e", "f", "g", "h", "i", "j", "k", "l", "m",
     "n", "o", "p", "q", "r", "s", "t", "u", "v", "w", "x", "y", "z"}

Digits == {"0", "1", "2", "3", "4", "5", "6", "7", "8", "9"}

Uppercase ==
    {"A", "B", "C", "D", "E", "F", "G", "H", "I", "J", "K", "L", "M",
     "N", "O", "P", "Q", "R", "S", "T", "U", "V", "W", "X", "Y", "Z"}

LowerOf ==
    [c \in Uppercase |->
        CASE c = "A" -> "a" [] c = "B" -> "b" [] c = "C" -> "c" [] c = "D" -> "d"
          [] c = "E" -> "e" [] c = "F" -> "f" [] c = "G" -> "g" [] c = "H" -> "h"
          [] c = "I" -> "i" [] c = "J" -> "j" [] c = "K" -> "k" [] c = "L" -> "l"
          [] c = "M" -> "m" [] c = "N" -> "n" [] c = "O" -> "o" [] c = "P" -> "p"
          [] c = "Q" -> "q" [] c = "R" -> "r" [] c = "S" -> "s" [] c = "T" -> "t"
          [] c = "U" -> "u" [] c = "V" -> "v" [] c = "W" -> "w" [] c = "X" -> "x"
          [] c = "Y" -> "y" [] c = "Z" -> "z"]

LowerChar(c) ==
    IF c \in Uppercase THEN LowerOf[c]
    ELSE IF c = EAcuteUpper THEN EAcute ELSE c

lower(s) == [i \in 1..Len(s) |-> LowerChar(s[i])]

RECURSIVE lstrip(_, _)
lstrip(s, set) ==
    IF s # <<>> /\ Head(s) \in set THEN lstrip(Tail(s), set) ELSE s

RECURSIVE rstrip(_, _)
rstrip(s, set) ==
    IF s # <<>> /\ s[Len(s)] \in set
    THEN rstrip(SubSeq(s, 1, Len(s) - 1), set)
    ELSE s

strip(s, set) == rstrip(lstrip(s, set), set)

(* CollapseHyphens that leaves every hyphen in place *)
CollapseHyphens_Keep(s) == s

(* re.sub(r'-+', '-', text) *)
RECURSIVE CollapseHyphens(_)
CollapseHyphens(s) ==
    IF Len(s) < 2 THEN s
    ELSE IF s[1] = "-" /\ s[2] = "-" THEN CollapseHyphens(Tail(s))
    ELSE <<s[1]>> \o CollapseHyphens(Tail(s))

(* sep.join(parts) *)
RECURSIVE join(_, _)
join(sep, parts) ==
    IF parts = <<>> THEN <<>>
    ELSE IF Len(parts) = 1 THEN parts[1]
    ELSE parts[1] \o sep \o join(sep, Tail(parts))

(* the class [a-z0-9\-] *)
SlugKeep == Lowercase \cup Digits \cup {"-"}

(* slugify with the runs of hyphens collapsed before the other characters *)
(* are replaced                                                            *)
slugify_CollapseFirst(text) ==
    IF text = <<>> THEN <<>>
    ELSE LET t1 == CollapseHyphens(strip(lower(text), Whitespace))
             t2 == [i \in 1..Len(t1) |-> IF t1[i] \in SlugKeep THEN t1[i] ELSE "-"]
         IN  strip(t2, {"-"})

(* BookmarksImporter.slugify *)
slugify(text) ==
    IF text = <<>> THEN <<>>
    ELSE LET t1 == strip(lower(text), Whitespace)
             t2 == [i \in 1..Len(t1) |-> IF t1[i] \in SlugKeep THEN t1[i] ELSE "-"]
             t3 == CollapseHyphens(t2)
         IN  strip(t3, {"-"})

(* the class [a-zA-Z0-9] *)
Alphanumeric == Lowercase \cup Uppercase \cup Digits

(* the NFKD decomposition of one character: an accented letter becomes its *)
(* base letter and a combining accent, o with stroke has no decomposition  *)
Decompose(c) ==
    CASE c = EAcute -> <<"e", CombiningAcute>>
      [] c = EAcuteUpper -> <<"E", CombiningAcute>>
      [] OTHER -> <<c>>

(* unicodedata.normalize('NFKD', text) *)
RECURSIVE normalize(_)
normalize(text) ==
    IF text = <<>> THEN <<>> ELSE Decompose(Head(text)) \o normalize(Tail(text))

(* text.encode('ascii', 'ignore').decode('ascii') *)
AsciiIgnore(text) == SelectSeq(text, LAMBDA c : c \notin NonAscii)

(* BookmarksManager.slugify *)
manager_slugify(text) ==
    IF text = <<>> THEN <<>>
    ELSE LET t1 == lower(AsciiIgnore(normalize(text)))
             t2 == [i \in 1..Len(t1) |->
                       IF t1[i] \in Alphanumeric THEN t1[i] ELSE "-"]
             t3 == CollapseHyphens(t2)
         IN  strip(t3, {"-"})

FilenameCap == 200

Unsafe == {"<", ">", ":", "\"", "/", "\\", "|", "?", "*"}

(* BookmarksImporter.sanitize_filename *)
sanitize_filename(filename) ==
    LET f == [i \in 1..Len(filename) |->
                 IF filename[i] \in Unsafe THEN "_" ELSE filename[i]]
    IN  IF Len(f) > FilenameCap THEN SubSeq(f, 1, FilenameCap) ELSE f

----------------------------------------------------------------------------
(* Python values. *)

S(s) == [t |-> "str", v |-> s, keys |-> <<>>, vals |-> <<>>]
None == [t |-> "none", v |-> <<>>, keys |-> <<>>, vals |-> <<>>]
Obj == [t |-> "obj", v |-> <<>>, keys |-> <<>>, vals |-> <<>>]
List(xs) == [t |-> "list", v |-> <<>>, keys |-> <<>>, vals |-> xs]
Dict(ks, xs) == [t |-> "dict", v |-> <<>>, keys |-> ks, vals |-> xs]

(* bool(x) *)
Truthy(x) ==
    \/ x.t = "str" /\ x.v # <<>>
    \/ x.t = "obj"
    \/ x.t = "list" /\ x.vals # <<>>
    \/ x.t = "dict" /\ x.keys # <<>>

IsDict(x) == x.t = "dict"

(* k in d, for a dict d *)
Has(d, k) == \E i \in 1..Len(d.keys) : d.keys[i] = k

(* d.get(k, default), for a dict d *)
Get(d, k, default) ==
    IF Has(d, k)
    THEN d.vals[CHOOSE i \in 1..Len(d.keys) : d.keys[i] = k]
    ELSE default

IsStr(x) == x.t = "str"

----------------------------------------------------------------------------
(* The bookmark tree: the category directories under bookmarks_dir and the *)
(* files, a function from path [dir, name] to content (a sequence of       *)
(* lines).                                                                 *)

EmptyFs == [dirs |-> {<<>>}, files |-> <<>>]

Path(dir, name) == [dir |-> dir, name |-> name]

exists(tree, p) == p \in DOMAIN tree.files

WriteFile(tree, p, content) ==
    [tree EXCEPT !.files =
        [q \in (DOMAIN tree.files) \cup {p} |->
            IF q = p THEN content ELSE tree.files[q]]]

Digit(n) == <<"0", "1", "2", "3", "4", "5", "6", "7", "8", "9">>[n + 1]

Pad2(n) == <<Digit((n \div 10) % 10), Digit(n % 10)>>

(* datetime.now().strftime("%Y%m%d_%H%M%S"), now = midnight + t seconds *)
strftime(t) ==
    <<"2", "0", "2", "4", "0", "1", "0", "1", "_">>
        \o Pad2(t \div 3600) \o Pad2((t \div 60) % 60) \o Pad2(t % 60)

Ext == <<".", "m", "d">>

TitleLine(title) == <<"title:", " ">> \o title
UriLine(uri) == <<"uri:", " ">> \o uri
TagsLine(tags) == <<"tags:", " ", "[">> \o tags \o <<"]">>
BodyLine(title, uri) == <<"[">> \o title \o <<"]", "(">> \o uri \o <<")">>

(* the f-string of create_bookmark_file *)
Content(title, uri, tags, add_date, last_modified) ==
    << <<"---">>, TitleLine(title), UriLine(uri), TagsLine(tags) >>
        \o (IF add_date # <<>> THEN << <<"add_date:", " ">> \o add_date >> ELSE <<>>)
        \o (IF last_modified # <<>>
            THEN << <<"last_modified:", " ">> \o last_modified >> ELSE <<>>)
        \o << <<"---">>, BodyLine(title, uri) >>

Untitled == <<"U", "n", "t", "i", "t", "l", "e", "d">>
Unsorted == <<"u", "n", "s", "o", "r", "t", "e", "d">>

(* WriterFailure without the except branch: the exception leaves the writer *)
WriterFailure_Raises(tree, error, title, uri) ==
    [tree |-> tree, res |-> [raised |-> error]]

(* the except branch of create_bookmark_file: nothing more is done *)
WriterFailure(tree, error, title, uri) ==
    [tree |-> tree,
     res |-> [success |-> FALSE, error |-> error, title |-> title, uri |-> uri]]

(* x.strip() if x else default, for a value that is falsy or a string *)
StripOr(x, default) == IF Truthy(x) THEN strip(x.v, Whitespace) ELSE default

(* x.strip() raises AttributeError: x is truthy and not a string *)
StripRaises(x) == Truthy(x) /\ ~IsStr(x)

(* TargetPath without the existence check *)
TargetPath_NoExistenceCheck(tree, now, category_dir, safe_title) ==
    Path(category_dir, slugify(safe_title) \o Ext)

(* the target path: lines 67-77 *)
TargetPath(tree, now, category_dir, safe_title) ==
    LET filepath == Path(category_dir, slugify(safe_title) \o Ext)
    IN  IF exists(tree, filepath)
        THEN Path(category_dir,
                  slugify(safe_title) \o <<"_">> \o strftime(now) \o Ext)
        ELSE filepath

(* BookmarksImporter.create_bookmark_file; io is what the filesystem does: *)
(* "ok", "mkdir_error" (os.makedirs raises) or "write_error" (open raises) *)
create_bookmark_file(tree, now, title, uri, category, tags, add_date, last_modified, io) ==
    IF StripRaises(title) THEN WriterFailure(tree, "AttributeError", title, uri)
    ELSE LET title1 == StripOr(title, Untitled) IN
    IF StripRaises(uri) THEN WriterFailure(tree, "AttributeError", S(title1), uri)
    ELSE LET uri1 == StripOr(uri, <<>>) IN
    IF StripRaises(category) \/ StripRaises(tags)
    THEN WriterFailure(tree, "AttributeError", S(title1), S(uri1))
    ELSE LET category1 == StripOr(category, Unsorted)
             tags1 == StripOr(tags, <<>>)
             category_dir == slugify(category1)
         IN
    IF io = "mkdir_error"
    THEN WriterFailure(tree, "OSError", S(title1), S(uri1))
    ELSE LET tree1 == [tree EXCEPT !.dirs = @ \cup {category_dir}]
             filepath == TargetPath(tree1, now, category_dir,
                                    sanitize_filename(title1))
             content == Content(title1, uri1, tags1, add_date, last_modified)
         IN
    IF io = "write_error"
    THEN WriterFailure(tree1, "OSError", S(title1), S(uri1))
    ELSE [tree |-> WriteFile(tree1, filepath, content),
          res |-> [success |-> TRUE, filename |-> filepath, title |-> S(title1),
                   uri |-> S(uri1), category |-> S(category1),
                   tags |-> S(tags1)]]

----------------------------------------------------------------------------
(* Import sources.  A source file is a record                              *)
(*   exists  the path exists                                               *)
(*   bad     0 when the bytes decode as UTF-8, k >= 1 when the first       *)
(*           undecodable byte is met while reading the k-th line or row    *)
(*   kind    "html" (lines), "json" (valid JSON text of the value doc),    *)
(*           "badjson" (starts like JSON, does not parse), "csv" (rows),   *)
(*           "text" (anything else)                                        *)
(*   layout  the shape of the text: "compact" (one line, no newline),      *)
(*           "pretty" (several lines, no comma in the first), "perline"    *)
(*           (several lines, a comma in the first)                         *)
(*   long    the text is longer than the 1024 characters the detector      *)
(*           reads                                                         *)
(* An HTML line is a record of what the three patterns of                  *)
(* _parse_html_bookmarks find in it: folder (<<>> or <<name>>), link (<<>> *)
(* or <<[href, title, add_date, last_modified, tags]>>), close (a </dl>).  *)

NoDoc == None

File(kind, lines, doc, rows, bad, layout, long) ==
    [exists |-> TRUE, bad |-> bad, kind |-> kind, lines |-> lines,
     doc |-> doc, rows |-> rows, layout |-> layout, long |-> long]

ImportResult(total, success, failed, errors, imported) ==
    [total |-> total, success |-> success, failed |-> failed,
     errors |-> errors, imported |-> imported]

(* the result of the except branch of each parser *)
FileFailure(e) == ImportResult(0, 0, 1, <<[error |-> e]>>, <<>>)

(* urllib.parse.unquote, on the escapes of the model's alphabet *)
unquote(s) ==
    [i \in 1..Len(s) |->
        IF s[i] = "%20" THEN " " ELSE IF s[i] = "%2F" THEN "/" ELSE s[i]]

(* CategoryAfterPop forgetting the folders that stay open *)
CategoryAfterPop_Reset(path_parts) == Unsorted

(* "/".join(path_parts) if path_parts else "unsorted", after a pop *)
CategoryAfterPop(path_parts) ==
    IF path_parts # <<>> THEN join(<<"/">>, path_parts) ELSE Unsorted

(* the bookmark dict of lines 219-226 *)
HtmlBookmark(link, current_category) ==
    Dict(<<"title", "uri", "category", "tags", "add_date", "last_modified">>,
         <<S(strip(link.title, Whitespace)),
           S(unquote(strip(link.href, Whitespace))),
           S(current_category), S(link.tags), S(link.add_date),
           S(link.last_modified)>>)

(* ParseLines with the guard of line 234 dropped: a closing marker met     *)
(* with no folder open recomputes the category from the empty stack        *)
RECURSIVE ParseLines_CloseUnguarded(_, _, _, _, _)
ParseLines_CloseUnguarded(lines, i, path_parts, current_category, bookmarks) ==
    IF i > Len(lines) THEN bookmarks
    ELSE LET line == lines[i] IN
         IF line.folder # <<>>
         THEN LET parts == Append(path_parts,
                                  slugify(strip(line.folder[1], Whitespace)))
              IN  ParseLines_CloseUnguarded(lines, i + 1, parts,
                                            join(<<"/">>, parts), bookmarks)
         ELSE IF line.link # <<>>
         THEN ParseLines_CloseUnguarded(lines, i + 1, path_parts, current_category,
                         Append(bookmarks,
                                HtmlBookmark(line.link[1], current_category)))
         ELSE IF line.close /\ path_parts # <<>>
         THEN LET parts == SubSeq(path_parts, 1, Len(path_parts) - 1)
              IN  ParseLines_CloseUnguarded(lines, i + 1, parts,
                                            CategoryAfterPop(parts), bookmarks)
         ELSE IF line.close
         THEN ParseLines_CloseUnguarded(lines, i + 1, <<>>, <<>>, bookmarks)
         ELSE ParseLines_CloseUnguarded(lines, i + 1, path_parts, current_category,
                                        bookmarks)

(* the loop of _parse_html_bookmarks from line i on *)
RECURSIVE ParseLines(_, _, _, _, _)
ParseLines(lines, i, path_parts, current_category, bookmarks) ==
    IF i > Len(lines) THEN bookmarks
    ELSE LET line == lines[i] IN
         IF line.folder # <<>>
         THEN LET parts == Append(path_parts,
                                  slugify(strip(line.folder[1], Whitespace)))
              IN  ParseLines(lines, i + 1, parts, join(<<"/">>, parts), bookmarks)
         ELSE IF line.link # <<>>
         THEN ParseLines(lines, i + 1, path_parts, current_category,
                         Append(bookmarks,
                                HtmlBookmark(line.link[1], current_category)))
         ELSE IF line.close /\ path_parts # <<>>
         THEN LET parts == SubSeq(path_parts, 1, Len(path_parts) - 1)
              IN  ParseLines(lines, i + 1, parts, CategoryAfterPop(parts), bookmarks)
         ELSE ParseLines(lines, i + 1, path_parts, current_category, bookmarks)

(* BookmarksImporter._parse_html_bookmarks *)
parse_html_bookmarks(lines) == ParseLines(lines, 1, <<>>, Unsorted, <<>>)

----------------------------------------------------------------------------
(* The per-record branch shared by the four parsers.  env is what the      *)
(* environment does during the call: dry_run, pace (seconds between two    *)
(* writes), failAt and failKind (the filesystem error met by the failAt-th *)
(* record, 0 for none).                                                    *)

Text(k) == <<k>>

(* `for x in xs`: the elements of a list, the keys of a dict, the          *)
(* characters of a string                                                  *)
Iter(xs) ==
    CASE xs.t = "list" -> xs.vals
      [] xs.t = "dict" -> [i \in 1..Len(xs.keys) |-> S(Text(xs.keys[i]))]
      [] xs.t = "str" -> [i \in 1..Len(xs.v) |-> S(<<xs.v[i]>>)]
      [] OTHER -> <<>>

(* len(xs) raises TypeError *)
LenRaises(xs) == xs.t \in {"none", "obj"}

WriterArgs(title, uri, category, tags, add_date, last_modified) ==
    [raises |-> FALSE, title |-> title, uri |-> uri, category |-> category,
     tags |-> tags, add_date |-> add_date, last_modified |-> last_modified]

Raises == [raises |-> TRUE]

(* lines 146-153 *)
HtmlArgs(bookmark) ==
    WriterArgs(Get(bookmark, "title", S(<<>>)), Get(bookmark, "uri", S(<<>>)),
               Get(bookmark, "category", S(Unsorted)),
               Get(bookmark, "tags", S(<<>>)),
               Get(bookmark, "add_date", S(<<>>)).v,
               Get(bookmark, "last_modified", S(<<>>)).v)

(* lines 275-280 and 324-329: bookmark.get raises on a non-dict *)
JsonArgs(bookmark) ==
    IF ~IsDict(bookmark) THEN Raises
    ELSE WriterArgs(
            Get(bookmark, "title", Get(bookmark, "name", S(<<>>))),
            Get(bookmark, "uri",
                Get(bookmark, "url", Get(bookmark, "link", S(<<>>)))),
            Get(bookmark, "category", Get(bookmark, "folder", S(Unsorted))),
            Get(bookmark, "tags", S(<<>>)), <<>>, <<>>)

Pocket == <<"p", "o", "c", "k", "e", "t">>

(* lines 377-387: item["tags"].keys() and item.get raise on a non-dict *)
PocketArgs(item) ==
    IF ~IsDict(item) THEN Raises
    ELSE LET hasTags == Has(item, "tags") /\ Truthy(Get(item, "tags", None))
             t == Get(item, "tags", None)
         IN  IF hasTags /\ ~IsDict(t) THEN Raises
             ELSE WriterArgs(
                     Get(item, "resolved_title", Get(item, "given_title", S(<<>>))),
                     Get(item, "resolved_url", Get(item, "given_url", S(<<>>))),
                     S(Pocket),
                     IF hasTags
                     THEN S(join(<<",">>, [i \in 1..Len(t.keys) |-> Text(t.keys[i])]))
                     ELSE S(<<>>),
                     <<>>, <<>>)

ArgsOf(format, record) ==
    CASE format = "html" -> HtmlArgs(record)
      [] format = "pocket" -> PocketArgs(record)
      [] OTHER -> JsonArgs(record)

IoAt(env, i) == IF env.failAt = i THEN env.failKind ELSE "ok"

(* DryStep with the category directory made before dry_run is looked at *)
DryStep_MakesDirectory(st, record) ==
    [st EXCEPT !.results.imported = Append(@, record),
               !.results.success = @ + 1,
               !.tree.dirs = @ \cup {Unsorted}]

(* the dry_run branch: the record is reported, nothing is written *)
DryStep(st, record) ==
    [st EXCEPT !.results.imported = Append(@, record),
               !.results.success = @ + 1]

(* Counted with a failed record counted and its result dropped *)
Counted_ErrorDropped(results, result) ==
    IF result.success
    THEN [results EXCEPT !.success = @ + 1, !.imported = Append(@, result)]
    ELSE [results EXCEPT !.failed = @ + 1]

(* `if result["success"]: ... else: ...`: the writer's result is counted   *)
(* and kept                                                                *)
Counted(results, result) ==
    IF result.success
    THEN [results EXCEPT !.success = @ + 1, !.imported = Append(@, result)]
    ELSE [results EXCEPT !.failed = @ + 1, !.errors = Append(@, result)]

(* the body of `for bookmark in bookmarks` for the records from i on; st   *)
(* is [tree, now, results, raised], raised the exception that left the     *)
(* loop ("" for none); badAt is the record whose read raises               *)
RECURSIVE ImportLoop(_, _, _, _, _, _)
ImportLoop(format, records, i, badAt, env, st) ==
    IF badAt = i THEN [st EXCEPT !.raised = "UnicodeDecodeError"]
    ELSE IF i > Len(records) THEN st
    ELSE IF env.dry_run
    THEN ImportLoop(format, records, i + 1, badAt, env, DryStep(st, records[i]))
    ELSE LET a == ArgsOf(format, records[i]) IN
         IF a.raises THEN [st EXCEPT !.raised = "AttributeError"]
         ELSE LET r == create_bookmark_file(st.tree, st.now, a.title, a.uri,
                          a.category, a.tags, a.add_date, a.last_modified,
                          IoAt(env, i))
              IN  ImportLoop(format, records, i + 1, badAt, env,
                     [tree |-> r.tree, now |-> st.now + env.pace,
                      raised |-> "",
                      results |-> Counted(st.results, r.res)])

(* Returned without the except branch: the exception leaves the parser *)
Returned_Propagates(st, total) ==
    [tree |-> st.tree, now |-> st.now,
     res |-> IF st.raised # "" THEN [raised |-> st.raised]
             ELSE [st.results EXCEPT !.total = total]]

(* Returned with the failure result given the total of the source *)
Returned_FailureKeepsTotal(st, total) ==
    [tree |-> st.tree, now |-> st.now,
     res |-> IF st.raised # "" THEN [FileFailure(st.raised) EXCEPT !.total = total]
             ELSE [st.results EXCEPT !.total = total]]

(* try: ... return results / except: return the failure result *)
Returned(st, total) ==
    [tree |-> st.tree, now |-> st.now,
     res |-> IF st.raised # "" THEN FileFailure(st.raised)
             ELSE [st.results EXCEPT !.total = total]]

Start(tree, now) ==
    [tree |-> tree, now |-> now, raised |-> "",
     results |-> ImportResult(0, 0, 0, <<>>, <<>>)]

Failed(tree, now, e) == [tree |-> tree, now |-> now, res |-> FileFailure(e)]

(* BookmarksImporter.import_html_bookmarks *)
import_html_bookmarks(tree, now, file, env) ==
    IF file.bad # 0 THEN Failed(tree, now, "UnicodeDecodeError")
    ELSE LET bookmarks == parse_html_bookmarks(
                              IF file.kind = "html" THEN file.lines ELSE <<>>)
         IN  Returned(ImportLoop("html", bookmarks, 1, 0, env, Start(tree, now)),
                      Len(bookmarks))

(* lines 255-266 *)
JsonBookmarks(data) ==
    IF data.t = "list" THEN data
    ELSE IF data.t = "dict"
    THEN IF Has(data, "bookmarks") THEN Get(data, "bookmarks", None)
         ELSE IF Has(data, "items") THEN Get(data, "items", None)
         ELSE List(<<data>>)
    ELSE List(<<>>)

(* BookmarksImporter.import_json_bookmarks *)
import_json_bookmarks(tree, now, file, env) ==
    IF file.bad # 0 THEN Failed(tree, now, "UnicodeDecodeError")
    ELSE IF file.kind # "json" THEN Failed(tree, now, "JSONDecodeError")
    ELSE LET bookmarks == JsonBookmarks(file.doc) IN
         IF LenRaises(bookmarks) THEN Failed(tree, now, "TypeError")
         ELSE Returned(ImportLoop("json", Iter(bookmarks), 1, 0, env,
                                  Start(tree, now)),
                       Len(Iter(bookmarks)))

(* The text of a file is a sequence of tokens: the JSON punctuation, the   *)
(* newline, the space, a word, JSON atoms (string literals, a number,      *)
(* null), the markers of a Netscape export, and Run, a run of SampleSize   *)
(* spaces.                                                                 *)

SampleSize == 1024

Run == "<spaces>"

QList == "\"list\""
QGivenUrl == "\"given_url\""
QStr == "\"s\""
QFolderMarker == "\"<DT><H3\""

(* The text of a source file. *)

QuoteTok(v) ==
    IF v = <<"list">> THEN QList
    ELSE IF v = <<"given_url">> THEN QGivenUrl
    ELSE QStr

KeyTok(k) ==
    IF k = "list" THEN QList ELSE IF k = "given_url" THEN QGivenUrl ELSE QStr

(* a JSON value on one line *)
RECURSIVE Compact(_)
CompactItems(x) ==
    IF x.t = "list" THEN [i \in 1..Len(x.vals) |-> Compact(x.vals[i])]
    ELSE [i \in 1..Len(x.vals) |->
             <<KeyTok(x.keys[i]), ":">> \o Compact(x.vals[i])]

Compact(x) ==
    CASE x.t = "str" -> <<QuoteTok(x.v)>>
      [] x.t = "none" -> <<"null">>
      [] x.t = "obj" -> <<"1">>
      [] x.t = "list" -> <<"[">> \o join(<<",">>, CompactItems(x)) \o <<"]">>
      [] x.t = "dict" -> <<"{">> \o join(<<",">>, CompactItems(x)) \o <<"}">>

(* the text of a JSON value: on one line ("compact"), one item of the top  *)
(* level per line with the first on the opening line ("perline"), or as    *)
(* json.dumps(indent=...) lays it out ("pretty"); a long text has more     *)
(* than SampleSize characters before its closing bracket                   *)
JsonText(x, layout, long) ==
    IF x.t \notin {"list", "dict"} THEN Compact(x)
    ELSE <<IF x.t = "list" THEN "[" ELSE "{">>
           \o (IF layout = "pretty" THEN <<"\n">> ELSE <<>>)
           \o join(IF layout = "compact" THEN <<",">> ELSE <<",", "\n">>,
                   CompactItems(x))
           \o (IF long THEN <<Run>> ELSE <<>>)
           \o (IF layout = "pretty" THEN <<"\n">> ELSE <<>>)
           \o <<IF x.t = "list" THEN "]" ELSE "}">>
           \o (IF layout = "compact" THEN <<>> ELSE <<"\n">>)

(* a line of a Netscape export *)
HtmlLineText(l) ==
    (IF l.folder # <<>> THEN <<"<DT><H3", "x">> ELSE <<>>)
        \o (IF l.link # <<>> THEN <<"<DT><A", " ", "HREF=", "x">> ELSE <<>>)
        \o (IF l.close THEN <<"</DL>">> ELSE <<>>)
        \o (IF l.folder = <<>> /\ l.link = <<>> /\ ~l.close THEN <<"x">> ELSE <<>>)
        \o <<"\n">>

RECURSIVE Concat(_)
Concat(parts) ==
    IF parts = <<>> THEN <<>> ELSE Head(parts) \o Concat(Tail(parts))

(* a CSV text: the header line, then one line per row *)
CsvLine(n) == join(<<",">>, [i \in 1..n |-> <<"x">>]) \o <<"\n">>

CsvText(rows) ==
    IF rows = <<>> THEN CsvLine(2)
    ELSE CsvLine(Len(rows[1].keys))
           \o Concat([i \in 1..Len(rows) |-> CsvLine(Len(rows[i].keys))])

(* a file given by its text *)
RawFile(text) == [exists |-> TRUE, bad |-> 0, kind |-> "raw", text |-> text]

TextOf(file) ==
    CASE file.kind = "raw" -> file.text
      [] file.kind = "json" -> JsonText(file.doc, file.layout, file.long)
      [] file.kind = "html" ->
            Concat([i \in 1..Len(file.lines) |-> HtmlLineText(file.lines[i])])
                \o (IF file.long THEN <<Run, "\n">> ELSE <<>>)
      [] file.kind = "csv" ->
            IF file.long
            THEN SubSeq(CsvText(file.rows), 1, Len(CsvText(file.rows)) - 1)
                     \o <<Run, "\n">>
            ELSE CsvText(file.rows)
      [] file.kind = "badjson" ->
            (CASE file.layout = "compact" -> <<"[", QStr, ",">>
               [] file.layout = "perline" -> <<"[", QStr, ",", "\n", QStr>>
               [] OTHER -> <<"[", "\n", QStr, ",">>)
      [] OTHER ->
            (CASE file.layout = "compact" -> <<"x">>
               [] file.layout = "perline" -> <<"x", ",", "x", "\n", "x">>
               [] OTHER -> <<"x", "\n", "x">>)

(* the lines of a text that are not empty *)
LineCount(text) ==
    Cardinality({i \in 1..Len(text) :
                    text[i] # "\n" /\ (i = 1 \/ text[i - 1] = "\n")})

(* what csv.DictReader yields: the rows of a CSV text; for any other text  *)
(* the first line is the header and every later line is a row with no      *)
(* known column                                                            *)
JunkRow == Dict(<<"?">>, <<S(<<"?">>)>>)

CsvRows(file) ==
    IF file.kind = "csv" THEN file.rows
    ELSE IF LineCount(TextOf(file)) > 1
    THEN [i \in 1..(LineCount(TextOf(file)) - 1) |-> JunkRow]
    ELSE <<>>

(* BookmarksImporter.import_csv_bookmarks: total counts the rows read *)
import_csv_bookmarks(tree, now, file, env) ==
    Returned(ImportLoop("csv", CsvRows(file), 1, file.bad, env, Start(tree, now)),
             Len(CsvRows(file)))

(* lines 365-368: "list" in data raises on a scalar that is no string *)
PocketItems(data) ==
    IF data.t = "dict" /\ Has(data, "list") THEN Get(data, "list", None)
    ELSE data

(* BookmarksImporter.import_pocket_export: items.items() needs a dict *)
import_pocket_export(tree, now, file, env) ==
    IF file.bad # 0 THEN Failed(tree, now, "UnicodeDecodeError")
    ELSE IF file.kind # "json" THEN Failed(tree, now, "JSONDecodeError")
    ELSE IF file.doc.t \in {"none", "obj"} THEN Failed(tree, now, "TypeError")
    ELSE LET items == PocketItems(file.doc) IN
         IF LenRaises(items) THEN Failed(tree, now, "TypeError")
         ELSE IF ~IsDict(items) THEN Failed(tree, now, "AttributeError")
         ELSE Returned(ImportLoop("pocket", items.vals, 1, 0, env,
                                  Start(tree, now)),
                       Len(items.vals))

----------------------------------------------------------------------------
(* Format detection and the entry point. *)

(* the number of characters of a token *)
Width(tok) ==
    CASE tok = Run -> SampleSize
      [] tok = QList -> 6
      [] tok = QGivenUrl -> 11
      [] tok = QStr -> 3
      [] tok = QFolderMarker -> 9
      [] tok \in {"<DT><H3", "<dt><h3"} -> 7
      [] tok \in {"<DT><A", "<dt><a"} -> 6
      [] tok \in {"HREF=", "href=", "</DL>"} -> 5
      [] tok = "null" -> 4
      [] OTHER -> 1

(* f.read(1024): the first SampleSize characters; a run of spaces that is  *)
(* cut is a shorter run of spaces                                          *)
RECURSIVE Read(_, _, _)
Read(text, i, room) ==
    IF i > Len(text) \/ room = 0 THEN <<>>
    ELSE IF Width(text[i]) <= room
    THEN <<text[i]>> \o Read(text, i + 1, room - Width(text[i]))
    ELSE IF text[i] = Run THEN <<" ">> ELSE <<"?">>

Sample(text) == Read(text, 1, SampleSize)

(* re.IGNORECASE on the tokens of the markers *)
LowerTok(tok) ==
    CASE tok = "<DT><H3" -> "<dt><h3"
      [] tok = QFolderMarker -> "<dt><h3"
      [] tok = "<DT><A" -> "<dt><a"
      [] tok = "HREF=" -> "href="
      [] OTHER -> tok

(* the two patterns of line 415: <dt><h3, and <dt><a.*href= where . is     *)
(* any character but the newline                                           *)
HasHtmlMarker(content) ==
    \/ \E i \in 1..Len(content) : LowerTok(content[i]) = "<dt><h3"
    \/ \E i \in 1..Len(content) : \E j \in (i + 1)..Len(content) :
          /\ LowerTok(content[i]) = "<dt><a"
          /\ LowerTok(content[j]) = "href="
          /\ \A k \in (i + 1)..(j - 1) : content[k] # "\n"

TextWhitespace == {" ", "\n", Run}

(* line 419: content.strip() starts with { or [ *)
StartsLikeJson(content) ==
    LET s == lstrip(content, TextWhitespace)
    IN  s # <<>> /\ Head(s) \in {"{", "["}

JsonStrings == {QStr, QList, QGivenUrl, QFolderMarker}
JsonAtoms == JsonStrings \cup {"1", "null"}

RECURSIVE SkipWs(_, _)
SkipWs(s, i) ==
    IF i <= Len(s) /\ s[i] \in TextWhitespace THEN SkipWs(s, i + 1) ELSE i

(* json.loads: the index after the value that starts at i, 0 when there   *)
(* is none                                                                 *)
RECURSIVE ParseValue(_, _)
RECURSIVE ParseElements(_, _)
RECURSIVE ParseMembers(_, _)
ParseValue(s, i) ==
    LET j == SkipWs(s, i) IN
    IF j > Len(s) THEN 0
    ELSE IF s[j] \in JsonAtoms THEN j + 1
    ELSE IF s[j] = "["
    THEN LET k == SkipWs(s, j + 1)
         IN  IF k <= Len(s) /\ s[k] = "]" THEN k + 1
             ELSE ParseElements(s, j + 1)
    ELSE IF s[j] = "{"
    THEN LET k == SkipWs(s, j + 1)
         IN  IF k <= Len(s) /\ s[k] = "}" THEN k + 1
             ELSE ParseMembers(s, j + 1)
    ELSE 0

ParseElements(s, i) ==
    LET e == ParseValue(s, i) IN
    IF e = 0 THEN 0
    ELSE LET k == SkipWs(s, e) IN
         IF k > Len(s) THEN 0
         ELSE IF s[k] = "," THEN ParseElements(s, k + 1)
         ELSE IF s[k] = "]" THEN k + 1
         ELSE 0

ParseMembers(s, i) ==
    LET j == SkipWs(s, i) IN
    IF j > Len(s) THEN 0
    ELSE IF s[j] \notin JsonStrings THEN 0
    ELSE LET c == SkipWs(s, j + 1) IN
         IF c > Len(s) THEN 0
         ELSE IF s[c] # ":" THEN 0
         ELSE LET e == ParseValue(s, c + 1) IN
              IF e = 0 THEN 0
              ELSE LET k == SkipWs(s, e) IN
                   IF k > Len(s) THEN 0
                   ELSE IF s[k] = "," THEN ParseMembers(s, k + 1)
                   ELSE IF s[k] = "}" THEN k + 1
                   ELSE 0

(* json.loads(content) returns: one value and nothing after it *)
SampleParses(content) ==
    LET e == ParseValue(content, 1)
    IN  e # 0 /\ SkipWs(content, e) > Len(content)

(* `w in content`, w the text of one token *)
Contains(content, w) == \E i \in 1..Len(content) : content[i] = w

(* content.split('\n')[0] *)
RECURSIVE FirstLine(_)
FirstLine(content) ==
    IF content = <<>> \/ Head(content) = "\n" THEN <<>>
    ELSE <<Head(content)>> \o FirstLine(Tail(content))

(* lines 430-433 *)
LooksLikeCsv(content) ==
    /\ Contains(content, ",")
    /\ Contains(content, "\n")
    /\ Contains(FirstLine(content), ",")

(* DetectSample with the JSON test before the HTML test *)
DetectSample_JsonFirst(content) ==
    IF StartsLikeJson(content) /\ SampleParses(content)
    THEN IF Contains(content, QList) \/ Contains(content, QGivenUrl)
         THEN "pocket" ELSE "json"
    ELSE IF HasHtmlMarker(content) THEN "html"
    ELSE IF LooksLikeCsv(content) THEN "csv"
    ELSE "unknown"

(* lines 414-435, on the sample read *)
DetectSample(content) ==
    IF HasHtmlMarker(content) THEN "html"
    ELSE IF StartsLikeJson(content) /\ SampleParses(content)
    THEN IF Contains(content, QList) \/ Contains(content, QGivenUrl)
         THEN "pocket" ELSE "json"
    ELSE IF LooksLikeCsv(content) THEN "csv"
    ELSE "unknown"

(* BookmarksImporter.detect_file_format: reading a file whose first block  *)
(* does not decode raises, and the except branch answers "unknown"         *)
detect_file_format(file) ==
    IF file.bad = 1 THEN "unknown"
    ELSE DetectSample(Sample(TextOf(file)))

(* ResolvedFormat with the format argument ignored *)
ResolvedFormat_AlwaysDetects(file, format) == detect_file_format(file)

(* the format import_file dispatches on; "" is no format given *)
ResolvedFormat(file, format) ==
    IF format = "" THEN detect_file_format(file) ELSE format

(* BookmarksImporter.import_file *)
import_file(tree, now, file, format, env) ==
    IF ~file.exists THEN Failed(tree, now, "File not found")
    ELSE LET f == ResolvedFormat(file, format) IN
         CASE f = "html" -> import_html_bookmarks(tree, now, file, env)
           [] f = "json" -> import_json_bookmarks(tree, now, file, env)
           [] f = "csv" -> import_csv_bookmarks(tree, now, file, env)
           [] f = "pocket" -> import_pocket_export(tree, now, file, env)
           [] OTHER -> Failed(tree, now, "Unsupported format")

----------------------------------------------------------------------------
(* Search: BookmarksManager.search_bookmarks over the same tree. *)

MinQueryLength == 3

(* os.path.basename of bookmarks_dir, '/data/bookmarks' by default *)
RootName == <<"b", "o", "o", "k", "m", "a", "r", "k", "s">>

(* the characters of a token of a file's content *)
Chars(tok) ==
    CASE tok = "---" -> <<"-", "-", "-">>
      [] tok = "title:" -> <<"t", "i", "t", "l", "e", ":">>
      [] tok = "uri:" -> <<"u", "r", "i", ":">>
      [] tok = "tags:" -> <<"t", "a", "g", "s", ":">>
      [] tok = "add_date:" -> <<"a", "d", "d", "_", "d", "a", "t", "e", ":">>
      [] tok = "last_modified:" ->
            <<"l", "a", "s", "t", "_", "m", "o", "d", "i", "f", "i", "e", "d", ":">>
      [] OTHER -> <<tok>>

(* f.read(): the characters of the file, every line ended by a newline *)
FileText(content) ==
    Concat([i \in 1..Len(content) |->
               Concat([j \in 1..Len(content[i]) |-> Chars(content[i][j])])
                   \o <<"\n">>])

(* a byte that is not UTF-8: open(...).read() raises *)
BadByte == "\\xff"

Unreadable(content) ==
    \E i \in 1..Len(content) : \E j \in 1..Len(content[i]) :
        content[i][j] = BadByte

(* EndsWithMd with every file taken for a bookmark file *)
EndsWithMd_Any(name) == TRUE

(* file.endswith('.md') *)
EndsWithMd(name) ==
    Len(name) >= Len(Ext) /\ SubSeq(name, Len(name) - Len(Ext) + 1, Len(name)) = Ext

(* `q in text` *)
IsSubstring(q, text) ==
    \E i \in 0..(Len(text) - Len(q)) : \A j \in 1..Len(q) : text[i + j] = q[j]

(* the class \s *)
RegexSpace == {" ", "\n", "\t"}

KeyAt(text, key, p) ==
    /\ p + Len(key) - 1 <= Len(text)
    /\ \A i \in 1..Len(key) : text[p + i - 1] = key[i]

(* the index of the last character of the line of p: .+ takes up to it *)
RECURSIVE LineEnd(_, _)
LineEnd(text, p) ==
    IF p > Len(text) THEN p - 1
    ELSE IF text[p] = "\n" THEN p - 1
    ELSE LineEnd(text, p + 1)

RestOfLine(text, p) == SubSeq(text, p, LineEnd(text, p))

RECURSIVE SpaceRun(_, _)
SpaceRun(text, p) ==
    IF p <= Len(text) /\ text[p] \in RegexSpace THEN 1 + SpaceRun(text, p + 1)
    ELSE 0

(* key\s*(.+) tried at p: \s* takes the longest run of white space that    *)
(* leaves .+ a character of the same line; the group is the rest of that   *)
(* line                                                                    *)
FieldStarts(text, key, p) ==
    {k \in 0..SpaceRun(text, p + Len(key)) :
        /\ p + Len(key) + k <= Len(text)
        /\ text[p + Len(key) + k] # "\n"}

FieldAt(text, key, p) ==
    IF KeyAt(text, key, p) /\ FieldStarts(text, key, p) # {}
    THEN LET k == CHOOSE x \in FieldStarts(text, key, p) :
                     \A y \in FieldStarts(text, key, p) : y <= x
         IN  [found |-> TRUE, group |-> RestOfLine(text, p + Len(key) + k)]
    ELSE [found |-> FALSE, group |-> <<>>]

(* key\s*\[(.+)\] tried at p: the group ends before the last ] of the line *)
BracketEnds(rest) == {j \in 2..Len(rest) : rest[j] = "]"}

BracketAt(text, key, p) ==
    LET open == p + Len(key) + SpaceRun(text, p + Len(key))
        rest == RestOfLine(text, open + 1)
    IN  IF KeyAt(text, key, p) /\ open <= Len(text) /\ text[open] = "["
           /\ BracketEnds(rest) # {}
        THEN LET j == CHOOSE x \in BracketEnds(rest) :
                         \A y \in BracketEnds(rest) : y <= x
             IN  [found |-> TRUE, group |-> SubSeq(rest, 1, j - 1)]
        ELSE [found |-> FALSE, group |-> <<>>]

(* re.search: the match at the leftmost position that has one *)
RECURSIVE Leftmost(_, _, _)
Leftmost(text, key, p) ==
    IF p > Len(text) THEN 0
    ELSE IF KeyAt(text, key, p) THEN p
    ELSE Leftmost(text, key, p + 1)

RECURSIVE SearchField(_, _, _)
FieldFrom(text, key, p) ==
    IF p = 0 THEN [found |-> FALSE, group |-> <<>>]
    ELSE IF FieldStarts(text, key, p) # {} THEN FieldAt(text, key, p)
    ELSE SearchField(text, key, p + 1)

SearchField(text, key, from) == FieldFrom(text, key, Leftmost(text, key, from))

RECURSIVE SearchBracket(_, _, _)
BracketFrom(text, key, p) ==
    IF p = 0 THEN [found |-> FALSE, group |-> <<>>]
    ELSE IF BracketAt(text, key, p).found THEN BracketAt(text, key, p)
    ELSE SearchBracket(text, key, p + 1)

SearchBracket(text, key, from) ==
    BracketFrom(text, key, Leftmost(text, key, from))

(* s.split(sep) *)
RECURSIVE split(_, _, _)
split(s, sep, part) ==
    IF s = <<>> THEN <<part>>
    ELSE IF Head(s) = sep THEN <<part>> \o split(Tail(s), sep, <<>>)
    ELSE split(Tail(s), sep, Append(part, Head(s)))

(* [tag.strip() for tag in tags_str.split(',') if tag.strip()] *)
ParseTags(tags_str) ==
    IF tags_str = <<>> THEN <<>>
    ELSE SelectSeq([i \in 1..Len(split(tags_str, ",", <<>>)) |->
                       strip(split(tags_str, ",", <<>>)[i], RegexSpace)],
                   LAMBDA t : t # <<>>)

(* lines 252-275: the result built from a matching file *)
SearchResult(path, text) ==
    LET title_match == SearchField(text, Chars("title:"), 1)
        uri_match == SearchField(text, Chars("uri:"), 1)
        tags_match == SearchBracket(text, Chars("tags:"), 1)
    IN  [id |-> path,
         url |-> strip(uri_match.group, RegexSpace),
         title |-> strip(title_match.group, RegexSpace),
         tags |-> ParseTags(strip(tags_match.group, RegexSpace)),
         category |-> IF path.dir = <<>> THEN RootName ELSE path.dir]

(* TooShort with the guard of line 232 dropped *)
TooShort_Never(query) == FALSE

(* len(query) < 3 *)
TooShort(query) == Len(query) < MinQueryLength

(* os.walk(bookmarks_dir): a walk is the file paths in the order the       *)
(* filesystem enumerates them; the root directory is visited first, then   *)
(* the category directories, each with its files                           *)
RECURSIVE DirsInOrder(_, _)
DirsInOrder(walk, seen) ==
    IF walk = <<>> THEN <<>>
    ELSE IF Head(walk).dir \in seen THEN DirsInOrder(Tail(walk), seen)
    ELSE <<Head(walk).dir>>
             \o DirsInOrder(Tail(walk), seen \cup {Head(walk).dir})

WalkDirs(walk) == << <<>> >> \o DirsInOrder(walk, {<<>>})

FilesIn(walk, dir) == SelectSeq(walk, LAMBDA p : p.dir = dir)

(* the result of a scan: the results so far, the files opened so far, and  *)
(* whether the inner loop was left by `break`                              *)
Scanned(results, opened) == [results |-> results, opened |-> opened]

(* lines 249-279 for a file that was read: text is its content *)
Matched(path, text, query_lower, st) ==
    IF IsSubstring(query_lower, lower(text))
    THEN Scanned(Append(st.results, SearchResult(path, text)),
                 Append(st.opened, path))
    ELSE Scanned(st.results, Append(st.opened, path))

(* lines 243-282 for one file: a file that is no .md file is passed over,  *)
(* one that cannot be read is skipped by the except branch                 *)
ScanFile(tree, path, query_lower, st) ==
    IF ~EndsWithMd(path.name) THEN st
    ELSE IF Unreadable(tree.files[path])
    THEN Scanned(st.results, Append(st.opened, path))
    ELSE Matched(path, FileText(tree.files[path]), query_lower, st)

(* `for file in files` from the j-th file on, left by `break` when a       *)
(* result was added and limit is reached                                   *)
RECURSIVE ScanFiles(_, _, _, _, _, _)
ContinueFiles(tree, files, j, query_lower, limit, st, st1) ==
    IF Len(st1.results) > Len(st.results) /\ Len(st1.results) >= limit THEN st1
    ELSE ScanFiles(tree, files, j + 1, query_lower, limit, st1)

ScanFiles(tree, files, j, query_lower, limit, st) ==
    IF j > Len(files) THEN st
    ELSE ContinueFiles(tree, files, j, query_lower, limit, st,
                       ScanFile(tree, files[j], query_lower, st))

(* `for root, dirs, files in os.walk(...)` from the i-th directory on *)
RECURSIVE ScanDirs(_, _, _, _, _, _)
ContinueDirs(tree, walk, i, query_lower, limit, st1) ==
    IF Len(st1.results) >= limit THEN st1
    ELSE ScanDirs(tree, walk, i + 1, query_lower, limit, st1)

ScanDirs(tree, walk, i, query_lower, limit, st) ==
    IF i > Len(WalkDirs(walk)) THEN st
    ELSE ContinueDirs(tree, walk, i, query_lower, limit,
                      ScanFiles(tree, FilesIn(walk, WalkDirs(walk)[i]), 1,
                                query_lower, limit, st))

(* BookmarksManager.search_bookmarks *)
search_bookmarks(tree, walk, query, limit) ==
    IF TooShort(query) THEN Scanned(<<>>, <<>>)
    ELSE ScanDirs(tree, walk, 1, lower(query), limit, Scanned(<<>>, <<>>))

----------------------------------------------------------------------------
(* The File Writer called directly, in any order, as time passes. *)

BaseCall ==
    [title |-> S(<<"a">>), uri |-> S(<<"u">>), category |-> S(<<"c">>),
     tags |-> S(<<>>), add_date |-> <<>>, last_modified |-> <<>>, io |-> "ok"]

Titles == {S(<<"A", " ">>), S(<<"a", "/", "b">>), None, Obj}
Uris == {S(<<>>), S(<<" ">>)}
Categories == {S(<<"a", "/", "b">>), None}

(* the calls tried: the base call and the calls that differ from it in one *)
(* argument, in the optional arguments or in what the filesystem does      *)
WriterCalls ==
    {BaseCall}
        \cup {[BaseCall EXCEPT !.title = x] : x \in Titles}
        \cup {[BaseCall EXCEPT !.uri = x] : x \in Uris}
        \cup {[BaseCall EXCEPT !.category = x] : x \in Categories}
        \cup {[BaseCall EXCEPT !.tags = S(<<"t", ",", "x">>),
                               !.add_date = <<"1">>, !.last_modified = <<"2">>]}
        \cup {[BaseCall EXCEPT !.io = x] : x \in {"mkdir_error", "write_error"}}

InitWriter == fs = EmptyFs /\ clock = 0 /\ hist = <<>>

(* one call of the writer, d seconds after the previous one *)
Write(c, d) ==
    /\ Len(hist) < MaxWrites
    /\ clock + d <= MaxClock
    /\ clock' = clock + d
    /\ LET r == create_bookmark_file(fs, clock', c.title, c.uri, c.category,
                                      c.tags, c.add_date, c.last_modified, c.io)
       IN  /\ fs' = r.tree
           /\ hist' = Append(hist, [op |-> "write", call |-> c, now |-> clock',
                                    before |-> fs, after |-> r.tree,
                                    res |-> r.res])

NextWriter == \E c \in WriterCalls, d \in 0..1 : Write(c, d)

SpecWriter == InitWriter /\ [][NextWriter]_vars


----------------------------------------------------------------------------
(* import_file called on a source file, into a tree the writer has left. *)

tA == <<"a">>
tB == <<"b">>
tU == <<"u">>
tC == <<"c">>

Folder(name) == [folder |-> <<name>>, link |-> <<>>, close |-> FALSE]
Link(href, title) ==
    [folder |-> <<>>, close |-> FALSE,
     link |-> <<[href |-> href, title |-> title, add_date |-> <<>>,
                 last_modified |-> <<>>, tags |-> <<>>]>>]
Close == [folder |-> <<>>, link |-> <<>>, close |-> TRUE]
Other == [folder |-> <<>>, link |-> <<>>, close |-> FALSE]

HtmlFile(lines) == File("html", lines, NoDoc, <<>>, 0, "pretty", FALSE)
JsonFile(doc) == File("json", <<>>, doc, <<>>, 0, "compact", FALSE)
CsvFile(rows, bad) == File("csv", <<>>, NoDoc, rows, bad, "perline", FALSE)

(* a record {"title": t, "url": u, "category": c} *)
Rec(t, u, c) == Dict(<<"title", "url", "category">>, <<t, u, c>>)
RecA == Rec(S(tA), S(tU), S(tC))
RecB == Rec(S(tB), S(tU), S(tC))

HtmlFiles ==
    { HtmlFile(<<Other, Folder(<<"A">>), Link(tU, tA), Folder(<<"B">>),
                 Link(tU, tB), Close, Close, Link(tU, tA)>>),
      HtmlFile(<<Link(<<>>, tA), Link(<<"%20">>, tB)>>),
      HtmlFile(<<Link(tU, tA), Link(tU, tA), Link(tU, tA)>>),
      HtmlFile(<<Close, Other>>) }

JsonDocs ==
    { List(<<RecA, RecB>>),
      List(<<RecA, RecA, RecA>>),
      List(<<Dict(<<"name", "link", "folder", "tags">>,
                  <<S(tA), S(tU), S(tC), S(<<"t">>)>>)>>),
      List(<<Dict(<<"title", "name", "uri">>, <<S(<<>>), S(tB), S(tU)>>)>>),
      List(<<RecA, S(<<"x">>), RecB>>),
      List(<<Rec(Obj, S(tU), S(tC)), RecB>>),
      List(<<Dict(<<"title">>, <<S(tA)>>)>>),
      List(<<Dict(<<"title", "url", "tags">>, <<S(tA), S(tU), List(<<S(<<"t">>)>>)>>)>>),
      Dict(<<"bookmarks">>, <<List(<<RecA>>)>>),
      Dict(<<"items">>, <<List(<<RecB>>)>>),
      Dict(<<"bookmarks">>, <<Obj>>),
      RecA,
      S(<<"x">>),
      Obj }

PocketItem(t, u, tags) ==
    Dict(<<"resolved_title", "resolved_url", "tags">>, <<t, u, tags>>)

PocketDocs ==
    { Dict(<<"list">>,
           <<Dict(<<"1", "2">>,
                  <<PocketItem(S(tA), S(tU), Dict(<<"x", "y">>, <<Obj, Obj>>)),
                    Dict(<<"given_title", "given_url">>, <<S(tB), S(tU)>>)>>)>>),
      Dict(<<"1">>, <<PocketItem(S(tA), S(tU), Dict(<<>>, <<>>))>>),
      Dict(<<"list">>, <<List(<<>>)>>),
      Dict(<<"list">>,
           <<Dict(<<"1", "2">>,
                  <<PocketItem(S(tA), S(tU), S(<<"x">>)),
                    PocketItem(S(tB), S(tU), None)>>)>>),
      Dict(<<"list">>,
           <<Dict(<<"1", "2", "3">>,
                  <<PocketItem(S(tA), S(tU), None), Obj,
                    PocketItem(S(tB), S(tU), None)>>)>>),
      Dict(<<"list">>,
           <<Dict(<<"1">>,
                  <<Dict(<<"resolved_title", "given_title", "given_url">>,
                         <<S(<<>>), S(tB), S(tU)>>)>>)>>) }

CsvRow(t, n, u) == Dict(<<"title", "name", "url", "tags">>, <<t, n, u, S(<<>>)>>)

CsvFiles ==
    { CsvFile(<<CsvRow(S(tA), S(<<>>), S(tU)), CsvRow(S(tB), S(<<>>), S(tU))>>, 0),
      CsvFile(<<CsvRow(S(<<>>), S(tB), S(tU))>>, 0),
      CsvFile(<<Dict(<<"name", "link">>, <<S(tA), None>>)>>, 0),
      CsvFile(<<CsvRow(S(tA), S(<<>>), S(tU)), CsvRow(S(tB), S(<<>>), S(tU))>>, 2),
      CsvFile(<<>>, 0) }

OtherFiles ==
    { [JsonFile(Obj) EXCEPT !.exists = FALSE],
      File("text", <<>>, NoDoc, <<>>, 1, "pretty", FALSE),
      File("text", <<>>, NoDoc, <<>>, 0, "compact", FALSE),
      File("badjson", <<>>, NoDoc, <<>>, 0, "compact", FALSE),
      File("badjson", <<>>, NoDoc, <<>>, 0, "perline", FALSE),
      [JsonFile(List(<<RecA, RecB>>)) EXCEPT !.long = TRUE, !.layout = "pretty"] }

(* the canonical file of each kind, short and long: a Netscape export, a   *)
(* Pocket export with a "list" key, an array of {title, url} objects in    *)
(* each layout, a two-column comma file with a header                      *)
TitleUrl(t) == Dict(<<"title", "url">>, <<S(t), S(tU)>>)

Long(file) == [file EXCEPT !.long = TRUE]

Laid(file, layout) == [file EXCEPT !.layout = layout]

CanonicalShort ==
    { HtmlFile(<<Other, Folder(<<"A">>), Link(tU, tA), Close>>),
      Laid(JsonFile(Dict(<<"list">>,
               <<Dict(<<"1">>, <<PocketItem(S(tA), S(tU), None)>>)>>)), "pretty"),
      JsonFile(List(<<TitleUrl(tA), TitleUrl(tB)>>)),
      Laid(JsonFile(List(<<TitleUrl(tA), TitleUrl(tB)>>)), "pretty"),
      Laid(JsonFile(List(<<TitleUrl(tA), TitleUrl(tB)>>)), "perline"),
      CsvFile(<<Dict(<<"title", "url">>, <<S(tA), S(tU)>>)>>, 0) }

CanonicalFiles == CanonicalShort \cup {Long(f) : f \in CanonicalShort}

(* the format of a canonical file *)
CanonicalFormat(file) ==
    CASE file.kind = "html" -> "html"
      [] file.kind = "csv" -> "csv"
      [] file.kind = "json" /\ file.doc.t = "dict" -> "pocket"
      [] OTHER -> "json"

Files ==
    HtmlFiles \cup {JsonFile(d) : d \in JsonDocs \cup PocketDocs}
        \cup CsvFiles \cup OtherFiles \cup CanonicalFiles

Formats == {"", "html", "json", "csv", "pocket", "xml"}

Env(dry_run, pace, failAt, failKind) ==
    [dry_run |-> dry_run, pace |-> pace, failAt |-> failAt,
     failKind |-> failKind]

(* the calls tried: every file under every format argument, dry and real,  *)
(* all writes within one second and no filesystem error; the files of      *)
(* several records also with a second between two writes, and with a       *)
(* filesystem error at one record                                          *)
ImportCalls ==
    {[file |-> f, format |-> g, env |-> Env(d, 0, 0, "ok")] :
        f \in Files, g \in Formats, d \in BOOLEAN}
    \cup {[file |-> f, format |-> "", env |-> Env(FALSE, 1, 0, "ok")] :
        f \in {x \in Files : x.kind \in {"html", "json"}}}
    \cup {[file |-> JsonFile(List(<<RecA, RecB>>)), format |-> "json",
           env |-> Env(FALSE, 0, k, e)] :
        k \in 1..2, e \in {"mkdir_error", "write_error"}}

(* the trees an import starts from: the fresh tree, and the tree after    *)
(* create_bookmark_file("a", "u", "c")                                     *)
InitialTrees ==
    {EmptyFs,
     create_bookmark_file(EmptyFs, 0, S(tA), S(tU), S(tC), S(<<>>),
                          <<>>, <<>>, "ok").tree}

InitImport == fs \in InitialTrees /\ clock = 0 /\ hist = <<>>

(* one call of import_file; after a first import, one of a canonical file *)
Import(c) ==
    /\ Len(hist) < MaxImports
    /\ hist # <<>> => c.file \in CanonicalShort
    /\ LET r == import_file(fs, clock, c.file, c.format, c.env)
       IN  /\ fs' = r.tree
           /\ clock' = r.now
           /\ hist' = Append(hist,
                  [op |-> "import", call |-> c,
                   route |-> IF c.file.exists
                             THEN ResolvedFormat(c.file, c.format) ELSE "",
                   now |-> clock, before |-> fs, after |-> r.tree,
                   res |-> r.res])

NextImport == \E c \in ImportCalls : Import(c)

SpecImport == InitImport /\ [][NextImport]_vars

----------------------------------------------------------------------------
(* _parse_html_bookmarks applied to every short sequence of lines. *)

MaxLines == 6

LinkClose == [Link(tU, tA) EXCEPT !.close = TRUE]

LineKinds == {Other, Folder(<<"A">>), Folder(<<"B", " ">>), Link(tU, tA), Close, LinkClose}

RECURSIVE SeqsUpTo(_, _)
SeqsUpTo(set, n) ==
    IF n = 0 THEN {<<>>}
    ELSE LET shorter == SeqsUpTo(set, n - 1)
         IN  shorter \cup {Append(q, x) : q \in {r \in shorter : Len(r) = n - 1},
                                          x \in set}

InitHtml ==
    /\ fs = EmptyFs
    /\ clock = 0
    /\ hist \in {<<[op |-> "source", lines |-> l]>> :
                    l \in SeqsUpTo(LineKinds, MaxLines)}

ParseHtml ==
    /\ Len(hist) = 1
    /\ hist[1].op = "source"
    /\ hist' = <<[op |-> "parse", lines |-> hist[1].lines,
                  bookmarks |-> parse_html_bookmarks(hist[1].lines)]>>
    /\ UNCHANGED <<fs, clock>>

NextHtml == ParseHtml

SpecHtml == InitHtml /\ [][NextHtml]_vars

----------------------------------------------------------------------------
(* detect_file_format applied to every short text and to the text of every *)
(* source file above.                                                      *)

MaxTokens == 4

Alphabet ==
    {"[", "]", ",", "\n", QStr, QList, "<DT><H3", QFolderMarker, "<DT><A",
     "HREF=", Run, "x"}

Texts ==
    SeqsUpTo(Alphabet, MaxTokens)
        \cup {TextOf(f) : f \in {x \in Files : x.exists}}
        \cup { <<"{", QList, ":", "1", "}">>, <<"{", QStr, ":", QList, "}">>,
               <<"<dt><a", " ", "href=", "x", "\n">>,
               <<"<DT><A", "\n", "HREF=", "x", "\n">>,
               <<"\n", " ", "[", QStr, ",", QStr, "]", "\n">>,
               <<"x", ",", "x", "\n", "[", "]">> }

InitDetect ==
    /\ fs = EmptyFs
    /\ clock = 0
    /\ hist \in {<<[op |-> "text", text |-> t]>> : t \in Texts}

Detect ==
    /\ Len(hist) = 1
    /\ hist[1].op = "text"
    /\ hist' = <<[op |-> "detect", text |-> hist[1].text,
                  format |-> detect_file_format(RawFile(hist[1].text))]>>
    /\ UNCHANGED <<fs, clock>>

NextDetect == Detect

SpecDetect == InitDetect /\ [][NextDetect]_vars

----------------------------------------------------------------------------
(* Both slug functions applied to every short text. *)

MaxSlugLen == 4

SlugAlphabet == {"a", "B", "1", " ", "-", "/", ".", EAcute, EAcuteUpper, OSlash}

SlugTexts == SeqsUpTo(SlugAlphabet, MaxSlugLen)

InitSlug ==
    /\ fs = EmptyFs
    /\ clock = 0
    /\ hist \in {<<[op |-> "text", text |-> t]>> : t \in SlugTexts}

Slugify ==
    /\ Len(hist) = 1
    /\ hist[1].op = "text"
    /\ hist' = <<[op |-> "slugify", text |-> hist[1].text,
                  writer |-> slugify(hist[1].text),
                  manager |-> manager_slugify(hist[1].text),
                  writer2 |-> slugify(slugify(hist[1].text)),
                  manager2 |-> manager_slugify(manager_slugify(hist[1].text))]>>
    /\ UNCHANGED <<fs, clock>>

NextSlug == Slugify

SpecSlug == InitSlug /\ [][NextSlug]_vars

----------------------------------------------------------------------------
(* Bookmarks are created and the tree is searched. *)

MaxCreates == 2

tTest == <<"T", "e", "s", "t">>
tExample ==
    <<"h", "t", "t", "p", "s", ":", "/", "/", "e", "x", "a", "m", "p", "l",
      "e", ".", "c", "o", "m">>

(* title="Test", uri="https://example.com", category="test" *)
TestCall ==
    [BaseCall EXCEPT !.title = S(tTest), !.uri = S(tExample),
                     !.category = S(<<"t", "e", "s", "t">>)]

SearchCreates == {TestCall, [BaseCall EXCEPT !.tags = S(<<"t", ",", "x">>)]}

(* trees in which other files were left: a text file and an unreadable    *)
(* .md file in a category directory; a .md file in the root directory      *)
LitteredTrees ==
    { [dirs |-> {<<>>, <<"c">>},
       files |-> (Path(<<"c">>, <<"n", ".", "t", "x", "t">>)
                      :> << <<"t", "e", "s", "t">> >>)
                 @@ (Path(<<"c">>, <<"x", ".", "m", "d">>)
                      :> << <<"t", "e", "s", "t", BadByte>> >>)],
      [dirs |-> {<<>>},
       files |-> (Path(<<>>, <<"r", ".", "m", "d">>)
                      :> << <<"a", " ", "T", "E", "S", "T">> >>)] }

Queries ==
    { <<"t", "e", "s", "t">>, <<"T", "E", "S">>,
      <<"e", "x", "a", "m", "p", "l", "e", ".", "c", "o", "m">>,
      <<"z", "z", "z">>, <<"t", "e">>, <<>> }

Limits == {0, 1, 20}

RECURSIVE Perms(_)
Perms(set) ==
    IF set = {} THEN {<<>>}
    ELSE UNION {{<<x>> \o p : p \in Perms(set \ {x})} : x \in set}

Searches == {i \in 1..Len(hist) : hist[i].op = "search"}

InitSearch ==
    /\ fs \in {EmptyFs} \cup LitteredTrees
    /\ clock = 0
    /\ hist = <<>>

(* a bookmark is written, before any search *)
Create(c) ==
    /\ Searches = {}
    /\ Len(hist) < MaxCreates
    /\ Write(c, 0)

(* one search of the tree, the filesystem enumerating it as walk *)
Search(query, limit, walk) ==
    /\ Searches = {}
    /\ hist' = Append(hist, search_bookmarks(fs, walk, query, limit)
                              @@ [op |-> "search", query |-> query,
                                  limit |-> limit, walk |-> walk, tree |-> fs])
    /\ UNCHANGED <<fs, clock>>

NextSearch ==
    \/ \E c \in SearchCreates : Create(c)
    \/ \E query \in Queries, limit \in Limits, walk \in Perms(DOMAIN fs.files) :
          Search(query, limit, walk)

SpecSearch == InitSearch /\ [][NextSearch]_vars

----------------------------------------------------------------------------
(* One bookmark is written and then searched for. *)

RoundTripCalls ==
    {[BaseCall EXCEPT !.title = S(t), !.uri = S(u), !.category = S(c),
                      !.tags = S(g), !.add_date = d, !.last_modified = d] :
        t \in {tTest, <<"a", " ", "b">>}, u \in {tExample, <<>>},
        c \in {<<"c">>, <<"t", "e", "s", "t">>},
        g \in {<<>>, <<"t", ",", "x">>, <<"t", ",", " ", "x">>},
        d \in {<<>>, <<"1">>}}

RoundTripQueries ==
    {<<"t", "i", "t", "l", "e">>, <<"U", "R", "I", ":">>, <<"-", "-", "-">>}

InitRoundTrip == fs = EmptyFs /\ clock = 0 /\ hist = <<>>

WriteOne(c) == hist = <<>> /\ Write(c, 0)

SearchOne(query, limit, walk) ==
    /\ Len(hist) = 1
    /\ hist[1].op = "write"
    /\ Search(query, limit, walk)

NextRoundTrip ==
    \/ \E c \in RoundTripCalls : WriteOne(c)
    \/ \E query \in RoundTripQueries, walk \in Perms(DOMAIN fs.files) :
          SearchOne(query, 20, walk)

SpecRoundTrip == InitRoundTrip /\ [][NextRoundTrip]_vars

----------------------------------------------------------------------------
(* Writers and a reader run at the same time.  hist is the log of the      *)
(* steps taken: first the calls of the writers, then one event for each    *)
(* step; the position of writer w is the number of its events.  The steps  *)
(* of create_bookmark_file that the filesystem sees one by one are         *)
(* os.makedirs, os.path.exists, open(filepath, 'w') and the write of the   *)
(* content when the file is closed.                                        *)

MaxReads == 1

tLong == <<"u", "v">>

RaceCalls ==
    {BaseCall, [BaseCall EXCEPT !.title = S(<<"A">>), !.uri = S(tLong)],
     [BaseCall EXCEPT !.title = S(tB)]}

(* lines 58-64 *)
CategoryDirOf(c) == slugify(StripOr(c.category, Unsorted))

(* lines 58 and 68 *)
SafeTitleOf(c) == sanitize_filename(StripOr(c.title, Untitled))

(* lines 79-93 *)
ContentOf(c) ==
    Content(StripOr(c.title, Untitled), StripOr(c.uri, <<>>),
            StripOr(c.tags, <<>>), c.add_date, c.last_modified)

(* lines 101-108 *)
ResultOf(c, filepath) ==
    [success |-> TRUE, filename |-> filepath,
     title |-> S(StripOr(c.title, Untitled)), uri |-> S(StripOr(c.uri, <<>>)),
     category |-> S(StripOr(c.category, Unsorted)),
     tags |-> S(StripOr(c.tags, <<>>))]

(* OpenedPath with the existence check made again when the file is opened *)
OpenedPath_Rechecked(tree, now, c, filepath) ==
    TargetPath(tree, now, CategoryDirOf(c), SafeTitleOf(c))

(* the path open() is given: the one chosen at lines 70-77 *)
OpenedPath(tree, now, c, filepath) == filepath

(* the lines of a text that ends with a newline *)
LinesOf(text) ==
    LET parts == split(text, "\n", <<>>) IN SubSeq(parts, 1, Len(parts) - 1)

(* the write of a whole content at offset 0 of a file opened with 'w':     *)
(* what the file holds beyond the length of the content stays              *)
WriteAtStart(tree, p, content, old, new) ==
    IF Len(old) <= Len(new) THEN WriteFile(tree, p, content)
    ELSE WriteFile(tree, p, LinesOf(new \o SubSeq(old, Len(new) + 1, Len(old))))

Writers == 1..Len(hist[1].calls)

EventsOf(w) == {i \in 2..Len(hist) : hist[i].w = w}

Pc(w) == Cardinality(EventsOf(w))

EventOf(w, op) == hist[CHOOSE i \in EventsOf(w) : hist[i].op = op]

Reads == {i \in 2..Len(hist) : hist[i].op = "read"}

InitRace ==
    /\ fs = EmptyFs
    /\ clock = 0
    /\ hist \in {<<[op |-> "calls", w |-> 0, calls |-> <<c1, c2>>]>> :
                    c1 \in RaceCalls, c2 \in RaceCalls}

(* line 65: os.makedirs(category_dir, exist_ok=True) *)
Mkdir(w) ==
    /\ Pc(w) = 0
    /\ fs' = [fs EXCEPT !.dirs = @ \cup {CategoryDirOf(hist[1].calls[w])}]
    /\ hist' = Append(hist, [op |-> "mkdir", w |-> w])
    /\ UNCHANGED clock

(* lines 68-77: the existence check chooses the path *)
Check(w) ==
    /\ Pc(w) = 1
    /\ hist' = Append(hist,
          [op |-> "check", w |-> w,
           filepath |-> TargetPath(fs, clock, CategoryDirOf(hist[1].calls[w]),
                                   SafeTitleOf(hist[1].calls[w]))])
    /\ UNCHANGED <<fs, clock>>

(* line 96: open(filepath, 'w') creates the file or empties it *)
Opened(w, filepath) ==
    /\ fs' = WriteFile(fs, filepath, <<>>)
    /\ hist' = Append(hist, [op |-> "open", w |-> w, filepath |-> filepath])
    /\ UNCHANGED clock

Open(w) ==
    /\ Pc(w) = 2
    /\ Opened(w, OpenedPath(fs, clock, hist[1].calls[w],
                            EventOf(w, "check").filepath))

(* lines 97-108: the content is written when the file is closed, and the   *)
(* result is returned                                                      *)
Closed(w, c, filepath) ==
    /\ fs' = WriteAtStart(fs, filepath, ContentOf(c),
                          FileText(fs.files[filepath]), FileText(ContentOf(c)))
    /\ hist' = Append(hist, [op |-> "close", w |-> w, filepath |-> filepath,
                             res |-> ResultOf(c, filepath)])
    /\ UNCHANGED clock

WriteAndClose(w) ==
    /\ Pc(w) = 3
    /\ Closed(w, hist[1].calls[w], EventOf(w, "open").filepath)

(* bookmarks_manager.py lines 246-247: a search opens and reads one file *)
ReadFile(p) ==
    /\ Cardinality(Reads) < MaxReads
    /\ hist' = Append(hist, [op |-> "read", w |-> 0, path |-> p,
                             content |-> fs.files[p]])
    /\ UNCHANGED <<fs, clock>>

NextRace ==
    \/ \E w \in Writers : Mkdir(w)
    \/ \E w \in Writers : Check(w)
    \/ \E w \in Writers : Open(w)
    \/ \E w \in Writers : WriteAndClose(w)
    \/ \E p \in DOMAIN fs.files : ReadFile(p)

SpecRace == InitRace /\ [][NextRace]_vars

----------------------------------------------------------------------------
(* Properties. *)

Writes == {i \in 1..Len(hist) : hist[i].op = "write"}
Imports == {i \in 1..Len(hist) : hist[i].op = "import"}

ParserFormats == {"html", "json", "csv", "pocket"}

(* the records the parser of format f iterates over, when the source can  *)
(* be read and its top level has the shape the parser expects             *)
SourceRecords(file, f) ==
    CASE f = "html" ->
            [ok |-> file.bad = 0,
             recs |-> parse_html_bookmarks(
                          IF file.kind = "html" THEN file.lines ELSE <<>>)]
      [] f = "json" ->
            [ok |-> file.bad = 0 /\ file.kind = "json"
                    /\ ~LenRaises(JsonBookmarks(file.doc)),
             recs |-> Iter(JsonBookmarks(file.doc))]
      [] f = "csv" -> [ok |-> file.bad = 0, recs |-> CsvRows(file)]
      [] f = "pocket" ->
            [ok |-> file.bad = 0 /\ file.kind = "json"
                    /\ IsDict(file.doc) /\ IsDict(PocketItems(file.doc)),
             recs |-> PocketItems(file.doc).vals]
      [] OTHER -> [ok |-> FALSE, recs |-> <<>>]

WholeFileFailure(res) ==
    /\ res.total = 0 /\ res.success = 0 /\ res.failed = 1
    /\ Len(res.errors) = 1 /\ res.imported = <<>>

(* C1, as stated: every result returned by one of the four parsers (the    *)
(* file exists and the format is one of html, json, csv, pocket) has       *)
(* total = success + failed.                                               *)
C1_ParserTotalsAddUp ==
    \A i \in Imports :
        (hist[i].call.file.exists /\ hist[i].route \in ParserFormats)
            => hist[i].res.total = hist[i].res.success + hist[i].res.failed

(* C1, amended: every result of import_file has total = success + failed   *)
(* or is the whole-file failure result (total 0, success 0, failed 1, one  *)
(* error, nothing imported), which the parsers return too.                 *)
C1_TotalsAddUpOrWholeFileFailure ==
    \A i \in Imports :
        \/ hist[i].res.total = hist[i].res.success + hist[i].res.failed
        \/ WholeFileFailure(hist[i].res)

C1_Witness ==
    \E i \in Imports :
        /\ hist[i].route = "json"
        /\ hist[i].res.total = 2
        /\ hist[i].res.success = 1
        /\ hist[i].res.failed = 1

(* C2: in a real import of a source that can be read and whose top level   *)
(* is well-formed, every record is processed: each one is counted in       *)
(* success or in failed (with an entry in errors), whatever the records    *)
(* before it are.                                                          *)
C2_RecordFailureDoesNotAbort ==
    \A i \in Imports :
        LET h == hist[i]
            src == SourceRecords(h.call.file, h.route)
        IN  (h.call.file.exists /\ ~h.call.env.dry_run /\ src.ok)
                => /\ h.res.success + h.res.failed = Len(src.recs)
                   /\ Len(h.res.errors) = h.res.failed

(* C3: no writer call changes or removes a file that existed before it, a  *)
(* successful call creates a path that did not exist, and the tree holds   *)
(* one more file per successful call.                                      *)
C3_NoFileReplaced ==
    /\ \A i \in Writes :
          /\ \A p \in DOMAIN hist[i].before.files :
                /\ p \in DOMAIN hist[i].after.files
                /\ hist[i].after.files[p] = hist[i].before.files[p]
          /\ hist[i].res.success
                => hist[i].res.filename \notin DOMAIN hist[i].before.files
    /\ Writes # {} =>
          Cardinality(DOMAIN fs.files)
              = Cardinality({i \in Writes : hist[i].res.success})

(* the stem the writer derives from a title argument *)
StemOf(title) == slugify(sanitize_filename(StripOr(title, Untitled)))

(* two successive successful writes of one title and category, the first   *)
(* of which found <stem>.md free                                           *)
C4_Case(i) ==
    /\ i \in Writes /\ i + 1 \in Writes
    /\ hist[i].res.success /\ hist[i + 1].res.success
    /\ hist[i].call.title = hist[i + 1].call.title
    /\ hist[i].call.category = hist[i + 1].call.category
    /\ \A p \in DOMAIN hist[i].before.files :
          ~(p.dir = hist[i].res.filename.dir
            /\ p.name = StemOf(hist[i].call.title) \o Ext)

(* C4: of two successive writes with the same title and category the first *)
(* is at <stem>.md, the second at <stem>_<YYYYMMDD_HHMMSS>.md, the two     *)
(* paths differ, and the first file is unchanged by the second write.      *)
C4_SecondWriteGetsTimestamp ==
    \A i \in 1..Len(hist) :
        C4_Case(i) =>
            LET p1 == hist[i].res.filename
                p2 == hist[i + 1].res.filename
                stem == StemOf(hist[i].call.title)
            IN  /\ p1.name = stem \o Ext
                /\ p2.name = stem \o <<"_">> \o strftime(hist[i + 1].now) \o Ext
                /\ p2.dir = p1.dir
                /\ p1 # p2
                /\ p1 \in DOMAIN hist[i + 1].after.files
                /\ p2 \in DOMAIN hist[i + 1].after.files
                /\ hist[i + 1].after.files[p1] = hist[i].after.files[p1]

C4_Witness ==
    \E i \in 1..Len(hist) :
        /\ C4_Case(i)
        /\ hist[i].call.uri # hist[i + 1].call.uri
        /\ hist[i].now = hist[i + 1].now

(* text.split("/") *)
RECURSIVE SplitSlash(_, _)
SplitSlash(s, seg) ==
    IF s = <<>> THEN <<seg>>
    ELSE IF Head(s) = "/" THEN <<seg>> \o SplitSlash(Tail(s), <<>>)
    ELSE SplitSlash(Tail(s), Append(seg, Head(s)))

(* the category slugified segment by segment, the separators kept *)
SegmentSlug(category) ==
    LET segs == SplitSlash(category, <<>>)
    IN  join(<<"/">>, [i \in 1..Len(segs) |-> slugify(segs[i])])

(* C5: every file is written under the directory named by the category     *)
(* slugified segment by segment with its "/" separators kept.              *)
C5_NestedCategoryDirectory ==
    \A i \in Writes :
        hist[i].res.success
            => hist[i].res.filename.dir = SegmentSlug(hist[i].res.category.v)

(* C6: no file of the tree records an empty uri. *)
C6_NoFileForEmptyUri ==
    \A p \in DOMAIN fs.files : fs.files[p][3] # UriLine(<<>>)

----------------------------------------------------------------------------
(* C7: the folder stack of the HTML parser. *)

LineKind(line) ==
    IF line.folder # <<>> THEN "open"
    ELSE IF line.link # <<>> THEN "link"
    ELSE IF line.close THEN "close"
    ELSE "other"

CountKind(lines, from, to, kind) ==
    Cardinality({k \in from..to : LineKind(lines[k]) = kind})

(* the folder opened at line i is not closed before line j: between them   *)
(* no prefix holds more closes than opens                                  *)
OpenAt(lines, i, j) ==
    /\ i < j
    /\ LineKind(lines[i]) = "open"
    /\ \A k \in (i + 1)..(j - 1) :
          CountKind(lines, i + 1, k, "close") <= CountKind(lines, i + 1, k, "open")

RECURSIVE SlugsOfOpen(_, _, _)
SlugsOfOpen(lines, i, j) ==
    IF i >= j THEN <<>>
    ELSE (IF OpenAt(lines, i, j)
          THEN <<slugify(strip(lines[i].folder[1], Whitespace))>> ELSE <<>>)
            \o SlugsOfOpen(lines, i + 1, j)

ExpectedCategory(lines, j) ==
    IF \E i \in 1..(j - 1) : OpenAt(lines, i, j)
    THEN join(<<"/">>, SlugsOfOpen(lines, 1, j))
    ELSE Unsorted

RECURSIVE LinkLines(_, _)
LinkLines(lines, i) ==
    IF i > Len(lines) THEN <<>>
    ELSE (IF LineKind(lines[i]) = "link" THEN <<i>> ELSE <<>>)
            \o LinkLines(lines, i + 1)

(* C7: the parser emits one record per bookmark line, in order, and the    *)
(* category of each is the "/"-join of the slugs of the folders open at    *)
(* its line, in opening order, or "unsorted" when none is open.            *)
C7_CategoryIsOpenFolderPath ==
    \A n \in 1..Len(hist) :
        hist[n].op = "parse" =>
            LET at == LinkLines(hist[n].lines, 1) IN
            /\ Len(hist[n].bookmarks) = Len(at)
            /\ \A k \in 1..Len(at) :
                  Get(hist[n].bookmarks[k], "category", None)
                      = S(ExpectedCategory(hist[n].lines, at[k]))

C7_Witness ==
    \E n \in 1..Len(hist) :
        /\ hist[n].op = "parse"
        /\ hist[n].lines = <<Folder(<<"A">>), Folder(<<"B", " ">>), Link(tU, tA),
                             Close, Close, Link(tU, tA)>>
        /\ Get(hist[n].bookmarks[1], "category", None) = S(<<"a", "/", "b">>)
        /\ Get(hist[n].bookmarks[2], "category", None) = S(Unsorted)

----------------------------------------------------------------------------
(* C8 to C10: dry run and alias resolution. *)

(* a record the writer accepts: a dict whose title, uri, category and tags *)
(* are strings or missing                                                  *)
WellFormed(format, rec) ==
    /\ IsDict(rec)
    /\ ~ArgsOf(format, rec).raises
    /\ \A x \in {ArgsOf(format, rec).title, ArgsOf(format, rec).uri,
                 ArgsOf(format, rec).category, ArgsOf(format, rec).tags} :
          x.t \in {"str", "none"}

AllWellFormed(format, recs) ==
    \A k \in 1..Len(recs) : WellFormed(format, recs[k])

(* C8: a dry-run import leaves the files and directories of the tree as    *)
(* they were, and when the source is readable and every record is          *)
(* well-formed it reports every record as a success.                       *)
C8_DryRunLeavesTree ==
    \A i \in Imports :
        LET h == hist[i]
            src == SourceRecords(h.call.file, h.route)
        IN  h.call.env.dry_run =>
              /\ h.after = h.before
              /\ (h.call.file.exists /\ src.ok /\ AllWellFormed(h.route, src.recs))
                    => /\ h.res.total = Len(src.recs)
                       /\ h.res.success = h.res.total
                       /\ h.res.failed = 0

C8_Witness ==
    \E i \in Imports :
        /\ hist[i].call.env.dry_run
        /\ hist[i].route = "html"
        /\ hist[i].res.total = 3
        /\ hist[i].res.success = 3
        /\ hist[i].before.files # <<>>

RecordFields == {"title", "uri", "category", "tags"}

(* C9: for a source whose records are all well-formed, the entries of      *)
(* imported returned by a dry run carry the title, uri, category and tags  *)
(* of the entries returned by the real import of that source into an       *)
(* empty tree, in the same order.                                          *)
C9_DryRunReportsWhatIsCreated ==
    \A i \in Imports :
        LET h == hist[i]
            src == SourceRecords(h.call.file, h.route)
            real == import_file(EmptyFs, h.now, h.call.file, h.call.format,
                                Env(FALSE, h.call.env.pace, 0, "ok")).res
        IN  (h.call.env.dry_run /\ h.call.file.exists /\ src.ok
             /\ AllWellFormed(h.route, src.recs))
                => /\ Len(h.res.imported) = Len(real.imported)
                   /\ \A k \in 1..Len(real.imported) :
                         \A f \in RecordFields :
                            Get(h.res.imported[k], f, None) = real.imported[k][f]

(* the first alias of the list whose value in rec is non-empty *)
RECURSIVE FirstNonEmpty(_, _, _)
FirstNonEmpty(rec, aliases, default) ==
    IF aliases = <<>> THEN default
    ELSE IF Has(rec, Head(aliases)) /\ Truthy(Get(rec, Head(aliases), None))
    THEN Get(rec, Head(aliases), None).v
    ELSE FirstNonEmpty(rec, Tail(aliases), default)

TitleAliases(f) ==
    IF f = "pocket" THEN <<"resolved_title", "given_title">> ELSE <<"title", "name">>

UriAliases(f) ==
    IF f = "pocket" THEN <<"resolved_url", "given_url">> ELSE <<"uri", "url", "link">>

(* C10: in the JSON, CSV and Pocket parsers the title and the uri written  *)
(* for a record are the first non-empty values of their alias lists, and   *)
(* the category the first non-empty of category, folder (Pocket: the       *)
(* constant "pocket").                                                     *)
C10_FirstNonEmptyAliasWins ==
    \A i \in Imports :
        LET h == hist[i]
            src == SourceRecords(h.call.file, h.route)
        IN  (~h.call.env.dry_run /\ h.call.env.failAt = 0 /\ h.call.file.exists
             /\ h.route \in {"json", "csv", "pocket"} /\ src.ok
             /\ AllWellFormed(h.route, src.recs))
                => /\ Len(h.res.imported) = Len(src.recs)
                   /\ \A k \in 1..Len(src.recs) :
                         /\ h.res.imported[k].title.v
                              = strip(FirstNonEmpty(src.recs[k],
                                        TitleAliases(h.route), Untitled), Whitespace)
                         /\ h.res.imported[k].uri.v
                              = strip(FirstNonEmpty(src.recs[k],
                                        UriAliases(h.route), <<>>), Whitespace)
                         /\ h.res.imported[k].category.v
                              = IF h.route = "pocket" THEN Pocket
                                ELSE strip(FirstNonEmpty(src.recs[k],
                                        <<"category", "folder">>, Unsorted), Whitespace)


IsImportResult(res) ==
    /\ DOMAIN res = {"total", "success", "failed", "errors", "imported"}
    /\ res.total \in Nat /\ res.success \in Nat /\ res.failed \in Nat
    /\ DOMAIN res.errors = 1..Len(res.errors)
    /\ DOMAIN res.imported = 1..Len(res.imported)

(* C11: import_file returns an ImportResult (total, success, failed,       *)
(* errors, imported) for every file, format argument and dry-run flag; no  *)
(* exception reaches the caller.                                           *)
C11_AlwaysReturnsImportResult ==
    \A i \in Imports : IsImportResult(hist[i].res)

(* an exception was raised inside a parser and a result came back *)
C11_Witness ==
    \E i \in Imports :
        /\ hist[i].call.file.exists
        /\ hist[i].call.file.kind = "badjson"
        /\ hist[i].call.format = "json"
        /\ IsImportResult(hist[i].res)
        /\ hist[i].res.errors = <<[error |-> "JSONDecodeError"]>>

(* the format the call asks for: the argument, or the detected format     *)
(* when no argument is given                                               *)
AskedFormat(c) ==
    IF c.format = "" THEN detect_file_format(c.file) ELSE c.format

FailsFast(c) == ~c.file.exists \/ AskedFormat(c) \notin ParserFormats

(* C12: when the path does not exist, or the format given (the format      *)
(* detected, when none is given) is not html, json, csv or pocket, the     *)
(* result is total 0, success 0, failed 1, one error (file not found or    *)
(* unsupported format, not a parser's error), nothing imported, and the    *)
(* tree is as it was.                                                      *)
C12_FailsFast ==
    \A i \in Imports :
        FailsFast(hist[i].call)
            => /\ WholeFileFailure(hist[i].res)
               /\ hist[i].res.errors[1].error
                    = (IF hist[i].call.file.exists
                       THEN "Unsupported format" ELSE "File not found")
               /\ hist[i].after = hist[i].before

(* an HTML export imported under a format name that is not supported *)
C12_Witness ==
    \E i \in Imports :
        /\ hist[i].call.file.exists
        /\ hist[i].call.file.kind = "html"
        /\ HasHtmlMarker(Sample(TextOf(hist[i].call.file)))
        /\ hist[i].call.format = "xml"
        /\ ~hist[i].call.env.dry_run
        /\ hist[i].res.errors = <<[error |-> "Unsupported format"]>>

(* C15: the writer never raises: every call returns a result with a        *)
(* success flag; when making the directory or writing the file fails, or   *)
(* an argument cannot be stripped, the result has success = FALSE and an   *)
(* error, and no file is written; a directory error is never ignored.      *)
C15_WriterReturnsStructuredFailure ==
    \A i \in Writes :
        LET h == hist[i] IN
        /\ "success" \in DOMAIN h.res
        /\ h.res.success \in BOOLEAN
        /\ ~h.res.success => "error" \in DOMAIN h.res
        /\ (h.call.io # "ok" \/ StripRaises(h.call.title))
              => /\ ~h.res.success
                 /\ h.after.files = h.before.files
        /\ h.call.io = "mkdir_error" => h.after = h.before

(* a directory error, a write error and a title that is no string *)
C15_Witness ==
    /\ \E i \in Writes : hist[i].call.io = "mkdir_error" /\ ~hist[i].res.success
    /\ \E i \in Writes : hist[i].call.io = "write_error" /\ ~hist[i].res.success
    /\ \E i \in Writes : hist[i].call.title = Obj /\ ~hist[i].res.success


Detections == {i \in 1..Len(hist) : hist[i].op = "detect"}

(* the number of characters before token i *)
RECURSIVE CharsBefore(_, _)
CharsBefore(text, i) ==
    IF i <= 1 THEN 0 ELSE CharsBefore(text, i - 1) + Width(text[i - 1])

(* the first 1024 characters of a text: the tokens that start before      *)
(* character 1024, the last one cut where it passes it                     *)
First1024(text) ==
    LET n == Cardinality({i \in 1..Len(text) : CharsBefore(text, i) < 1024})
    IN  [i \in 1..n |->
            IF CharsBefore(text, i) + Width(text[i]) <= 1024 THEN text[i]
            ELSE " "]

(* C13: the detected format is html when the first 1024 characters hold a  *)
(* folder or anchor-with-href marker; otherwise json or pocket when the    *)
(* trimmed sample starts with { or [ and parses; otherwise csv when the    *)
(* sample has a comma and a newline and a comma in its first line;         *)
(* otherwise unknown.                                                      *)
C13_DetectorFollowsDecisionOrder ==
    \A i \in Detections :
        LET s == First1024(hist[i].text)
            format == hist[i].format
            html == HasHtmlMarker(s)
            json == StartsLikeJson(s) /\ SampleParses(s)
            csv == LooksLikeCsv(s)
        IN  /\ html => format = "html"
            /\ (~html /\ json) => format \in {"json", "pocket"}
            /\ (~html /\ ~json /\ csv) => format = "csv"
            /\ (~html /\ ~json /\ ~csv) => format = "unknown"

(* a sample that holds a marker and is valid JSON is detected as html *)
C13_Witness ==
    \E i \in Detections :
        /\ hist[i].text = <<"[", QFolderMarker, "]">>
        /\ SampleParses(Sample(hist[i].text))
        /\ hist[i].format = "html"

(* C14: a canonical file of each kind, short or long, imported with no     *)
(* format given, is routed to the parser of its kind.                      *)
C14_CanonicalFilesDetected ==
    \A i \in Imports :
        (hist[i].call.format = "" /\ hist[i].call.file \in CanonicalFiles)
            => hist[i].route = CanonicalFormat(hist[i].call.file)


(* a file name with the .md extension *)
HasMdExtension(name) ==
    \E n \in 0..Len(name) : name = SubSeq(name, 1, n) \o <<".", "m", "d">>

(* the files of a tree that a search for query has to report *)
Matching(tree, query) ==
    {p \in DOMAIN tree.files :
        /\ HasMdExtension(p.name)
        /\ ~Unreadable(tree.files[p])
        /\ IsSubstring(lower(query), lower(FileText(tree.files[p])))}

InSeq(x, s) == \E k \in 1..Len(s) : s[k] = x

(* C16: after one bookmark is written by the writer into the empty tree,   *)
(* with a single-segment category, a search for a query of 3 characters or *)
(* more that occurs in its title or uri (whatever the case) returns it     *)
(* with its title and uri, with its category, and with tags that contain   *)
(* the category.                                                           *)
C16_WrittenBookmarkIsFound ==
    (/\ Len(hist) = 2
     /\ hist[1].op = "write" /\ hist[1].before = EmptyFs /\ hist[1].res.success
     /\ hist[2].op = "search" /\ hist[2].limit >= 1
     /\ Len(hist[2].query) >= 3
     /\ \/ IsSubstring(lower(hist[2].query), lower(hist[1].call.title.v))
        \/ IsSubstring(lower(hist[2].query), lower(hist[1].call.uri.v)))
        => \E k \in 1..Len(hist[2].results) :
              LET r == hist[2].results[k] IN
              /\ r.title = hist[1].call.title.v
              /\ r.url = hist[1].call.uri.v
              /\ r.category = hist[1].call.category.v
              /\ InSeq(hist[1].call.category.v, r.tags)

(* C17: a search returns at most limit results, and opens no file after    *)
(* the one that gave it its limit-th result (no file at all when limit is  *)
(* 0).                                                                     *)
C17_AtMostLimitResults ==
    \A i \in Searches :
        LET h == hist[i] IN
        /\ Len(h.results) <= h.limit
        /\ Len(h.results) = h.limit
              => IF h.limit = 0 THEN h.opened = <<>>
                 ELSE h.opened[Len(h.opened)] = h.results[h.limit].id

(* C18: for a query of 3 characters or more, every result is that of a     *)
(* readable .md file of the tree whose text contains the query whatever    *)
(* the case, no file gives two results, and when fewer than limit results  *)
(* are returned every such file has its result (a file without .md or an   *)
(* unreadable one gives none and does not end the scan).                   *)
C18_ResultsAreTheMatchingFiles ==
    \A i \in Searches :
        LET h == hist[i] IN
        Len(h.query) >= 3
            => /\ \A k \in 1..Len(h.results) :
                     h.results[k].id \in Matching(h.tree, h.query)
               /\ \A k, l \in 1..Len(h.results) :
                     h.results[k].id = h.results[l].id => k = l
               /\ Len(h.results) < h.limit
                     => \A p \in Matching(h.tree, h.query) :
                           \E k \in 1..Len(h.results) : h.results[k].id = p

(* a text file and an unreadable file that hold the query are enumerated  *)
(* before a bookmark that is found                                         *)
C18_Witness ==
    \E i \in Searches :
        LET h == hist[i] IN
        /\ h.query = <<"T", "E", "S">>
        /\ Len(h.walk) = 3
        /\ ~HasMdExtension(h.walk[1].name)
        /\ Unreadable(h.tree.files[h.walk[2]])
        /\ h.limit = 20
        /\ Len(h.results) = 1
        /\ h.results[1].id = h.walk[3]

(* C19: a search with a query of 0, 1 or 2 characters returns no result    *)
(* and opens no file.                                                      *)
C19_ShortQueryReturnsNothing ==
    \A i \in Searches :
        Len(hist[i].query) <= 2
            => hist[i].results = <<>> /\ hist[i].opened = <<>>

(* a query of 2 characters that a bookmark of the tree holds *)
C19_Witness ==
    \E i \in Searches :
        /\ hist[i].query = <<"t", "e">>
        /\ Matching(hist[i].tree, hist[i].query) # {}
        /\ hist[i].limit = 20
        /\ hist[i].results = <<>>

Slugs == {i \in 1..Len(hist) : hist[i].op = "slugify"}

(* the closest ASCII letter of a letter *)
Closest(c) ==
    CASE c = EAcute -> "e" [] c = EAcuteUpper -> "E" [] c = OSlash -> "o"
      [] OTHER -> c

(* a text with each run of hyphens made one hyphen and no hyphen at either *)
(* end                                                                     *)
RECURSIVE Hyphenated(_)
Hyphenated(s) ==
    IF s = <<>> THEN <<>>
    ELSE IF Head(s) = "-" /\ (Len(s) = 1 \/ s[2] = "-") THEN Hyphenated(Tail(s))
    ELSE <<Head(s)>> \o Hyphenated(Tail(s))

RECURSIVE NoLeadingHyphen(_)
NoLeadingHyphen(s) ==
    IF s # <<>> /\ Head(s) = "-" THEN NoLeadingHyphen(Tail(s)) ELSE s

(* the reference normalization of the slug function *)
ReferenceSlug(text) ==
    LET ascii == [i \in 1..Len(text) |-> LowerChar(Closest(text[i]))]
        hyphens == [i \in 1..Len(ascii) |->
                       IF ascii[i] \in Lowercase \cup Digits THEN ascii[i]
                       ELSE "-"]
    IN  NoLeadingHyphen(Hyphenated(hyphens))

(* C20: for every text, the slug of the writer and the slug of the manager *)
(* both equal the reference normalization (closest ASCII letters, lower    *)
(* case, runs outside [a-z0-9] made one hyphen, no hyphen at either end),  *)
(* so the two are equal.                                                   *)
C20_SlugsEqualReference ==
    \A i \in Slugs :
        /\ hist[i].writer = ReferenceSlug(hist[i].text)
        /\ hist[i].manager = ReferenceSlug(hist[i].text)
        /\ hist[i].writer = hist[i].manager


(* a text that is empty or matches [a-z0-9]+(-[a-z0-9]+)* *)
IsSlug(s) ==
    \/ s = <<>>
    \/ /\ \A k \in 1..Len(s) : s[k] \in Lowercase \cup Digits \cup {"-"}
       /\ s[1] # "-" /\ s[Len(s)] # "-"
       /\ \A k \in 1..(Len(s) - 1) : ~(s[k] = "-" /\ s[k + 1] = "-")

(* C21: for every text, the slug of the writer and the slug of the manager *)
(* are empty or match [a-z0-9]+(-[a-z0-9]+)*: no hyphen at either end, no  *)
(* doubled hyphen, no character outside a-z, 0-9 and the hyphen.           *)
C21_SlugMatchesPattern ==
    \A i \in Slugs : IsSlug(hist[i].writer) /\ IsSlug(hist[i].manager)

(* a text with a capital letter, a slash, a dot and a hyphen next to them  *)
(* whose slugs are not empty                                               *)
C21_Witness ==
    \E i \in Slugs :
        /\ hist[i].text = <<"B", "/", "-", ".">>
        /\ hist[i].writer = <<"b">> /\ hist[i].manager = <<"b">>

(* C22: for every text x, slug(slug(x)) = slug(x) for the writer's slug    *)
(* and for the manager's slug, and the slug of the empty text is empty.    *)
C22_SlugIsIdempotent ==
    \A i \in Slugs :
        /\ hist[i].writer2 = hist[i].writer
        /\ hist[i].manager2 = hist[i].manager
        /\ hist[i].text = <<>> => hist[i].writer = <<>> /\ hist[i].manager = <<>>

(* a text that is no slug, with a space next to a hyphen between two       *)
(* letters, whose slug is again a fixed point                              *)
C22_Witness ==
    \E i \in Slugs :
        /\ hist[i].text = <<"a", " ", "-", "B">>
        /\ hist[i].writer = <<"a", "-", "b">>
        /\ hist[i].writer2 = <<"a", "-", "b">>
        /\ hist[i].manager2 = hist[i].manager

----------------------------------------------------------------------------
(* C25: closing markers with no folder open. *)

Parses == {n \in 1..Len(hist) : hist[n].op = "parse"}

(* line k is a closing marker met while no folder is open *)
SurplusClose(lines, k) ==
    /\ LineKind(lines[k]) = "close"
    /\ ~\E i \in 1..(k - 1) : OpenAt(lines, i, k)

(* the number of bookmark lines among the first k lines *)
LinksUpTo(lines, k) == CountKind(lines, 1, k, "link")

(* C25: a closing marker met while no folder is open changes nothing: the  *)
(* parser still emits one record for each bookmark line and no more (no    *)
(* record for the marker, no error), and the category of every bookmark    *)
(* after the marker is the one it has when the source starts after the     *)
(* marker: "unsorted" until a folder is opened, and the path of the        *)
(* folders opened after the marker otherwise.                              *)
C25_SurplusCloseIsNoOp ==
    \A n \in Parses :
        LET lines == hist[n].lines
            at == LinkLines(lines, 1)
        IN  \A k \in 1..Len(lines) :
                SurplusClose(lines, k)
                    => /\ Len(hist[n].bookmarks) = Len(at)
                       /\ \A m \in 1..Len(at) :
                             at[m] > k
                                 => Get(hist[n].bookmarks[m], "category", None)
                                      = S(ExpectedCategory(
                                            SubSeq(lines, k + 1, Len(lines)),
                                            at[m] - k))

(* two closing markers after one folder, then a bookmark, a folder and a   *)
(* bookmark                                                                *)
C25_Witness ==
    \E n \in Parses :
        /\ hist[n].lines = <<Folder(<<"A">>), Close, Close, Link(tU, tA),
                             Folder(<<"B", " ">>), Link(tU, tA)>>
        /\ SurplusClose(hist[n].lines, 3)
        /\ Len(hist[n].bookmarks) = 2
        /\ Get(hist[n].bookmarks[1], "category", None) = S(Unsorted)
        /\ Get(hist[n].bookmarks[2], "category", None) = S(<<"b">>)


----------------------------------------------------------------------------
(* C26: the pocket test of the detector. *)

(* the sample holds an object key named "list" or "given_url": the quoted  *)
(* word followed by a colon                                                *)
HasPocketKey(content) ==
    \E i \in 1..(Len(content) - 1) :
        /\ content[i] \in {QList, QGivenUrl}
        /\ SkipWs(content, i + 1) <= Len(content)
        /\ content[SkipWs(content, i + 1)] = ":"

(* C26: for a sample without HTML marker that starts with { or [ and       *)
(* parses as JSON, the detected format is pocket exactly when the document *)
(* has an object key named "list" or "given_url", and json otherwise (so   *)
(* json when the words occur as string values only).                       *)
C26_PocketIffPocketKey ==
    \A i \in Detections :
        LET content == Sample(hist[i].text) IN
        (/\ ~HasHtmlMarker(content)
         /\ StartsLikeJson(content)
         /\ SampleParses(content))
            => hist[i].format = IF HasPocketKey(content) THEN "pocket" ELSE "json"


----------------------------------------------------------------------------
(* C27: what search reads back from a written file. *)

(* the tags of a comma-separated text *)
CommaSplit(tags) ==
    SelectSeq([i \in 1..Len(split(tags, ",", <<>>)) |->
                  strip(split(tags, ",", <<>>)[i], {" "})],
              LAMBDA t : t # <<>>)

(* C27: when a bookmark written by the writer into the empty tree is found *)
(* by a search, the title, url and tags of its result are the title, the   *)
(* uri and the comma-split tags of the writer's call, also when the uri or *)
(* the tags are empty.                                                     *)
C27_SearchReadsBackWhatWasWritten ==
    (/\ Len(hist) = 2
     /\ hist[1].op = "write" /\ hist[1].res.success
     /\ hist[2].op = "search")
        => \A k \in 1..Len(hist[2].results) :
              LET r == hist[2].results[k] IN
              /\ r.title = hist[1].res.title.v
              /\ r.url = hist[1].res.uri.v
              /\ r.tags = CommaSplit(hist[1].res.tags.v)


----------------------------------------------------------------------------
(* C28 and C29: the shape of the import result. *)

(* C28: an import that returns the whole-file failure shape (total 0,      *)
(* success 0, failed 1, nothing imported) has created no bookmark file:    *)
(* the tree holds the files it held before the call.                       *)
C28_WholeFileFailureWritesNothing ==
    \A i \in Imports :
        WholeFileFailure(hist[i].res)
            => DOMAIN hist[i].after.files = DOMAIN hist[i].before.files



(* the title the writer reports for a record *)
ReportedTitle(format, record) ==
    S(StripOr(ArgsOf(format, record).title, Untitled))

(* a is b with some elements left out: the elements of a from i on are     *)
(* found in order among those of b from j on                               *)
RECURSIVE InOrder(_, _, _, _)
InOrder(a, b, i, j) ==
    IF i > Len(a) THEN TRUE
    ELSE IF j > Len(b) THEN FALSE
    ELSE IF a[i] = b[j] THEN InOrder(a, b, i + 1, j + 1)
    ELSE InOrder(a, b, i, j + 1)

(* C29: every result of import_file has as many imported entries as        *)
(* successes and as many errors as failures; in a dry run of a readable    *)
(* source the imported entries are the records in their order, and in a    *)
(* real import the titles of the imported entries are titles of the        *)
(* records of the source, in the order of the records.                     *)
C29_ListsMatchCounts ==
    \A i \in Imports :
        LET h == hist[i]
            src == SourceRecords(h.call.file, h.route)
        IN  /\ Len(h.res.imported) = h.res.success
            /\ Len(h.res.errors) = h.res.failed
            /\ (h.call.env.dry_run /\ h.res.success > 0)
                  => h.res.imported = src.recs
            /\ (~h.call.env.dry_run /\ h.res.success > 0)
                  => InOrder([k \in 1..Len(h.res.imported) |->
                                 h.res.imported[k].title],
                             [k \in 1..Len(src.recs) |->
                                 ReportedTitle(h.route, src.recs[k])], 1, 1)

(* a real import of two records of different titles, the first written and *)
(* the second failed                                                       *)
C29_Witness ==
    \E i \in Imports :
        /\ ~hist[i].call.env.dry_run
        /\ hist[i].res.total = 2
        /\ Len(hist[i].res.imported) = 1 /\ Len(hist[i].res.errors) = 1
        /\ hist[i].res.imported[1].title = S(tA)

----------------------------------------------------------------------------
(* C23 and C24: writers and readers of the same tree. *)

(* the text is the whole serialized bookmark of one of the calls *)
CompleteFile(content) ==
    \E w \in Writers : FileText(content) = FileText(ContentOf(hist[1].calls[w]))

(* C23: whatever the interleaving, a reader that opens a file of the tree  *)
(* while writers run reads the complete metadata block and body of a       *)
(* bookmark, never a part of it.                                           *)
C23_NoPartialFileObserved ==
    \A i \in Reads : CompleteFile(hist[i].content)


Done(w) == Pc(w) = 4

IndexOf(w, op) == CHOOSE i \in EventsOf(w) : hist[i].op = op

(* both writers are done, and each made its existence check before the     *)
(* other opened its file                                                   *)
BothCheckedFirst ==
    /\ Done(1) /\ Done(2)
    /\ IndexOf(1, "check") < IndexOf(2, "open")
    /\ IndexOf(2, "check") < IndexOf(1, "open")

(* the writer that closed its file last *)
LastWriter == IF IndexOf(1, "close") > IndexOf(2, "close") THEN 1 ELSE 2

(* the two calls give the same file name in the same directory *)
SameTarget ==
    /\ CategoryDirOf(hist[1].calls[1]) = CategoryDirOf(hist[1].calls[2])
    /\ slugify(SafeTitleOf(hist[1].calls[1])) = slugify(SafeTitleOf(hist[1].calls[2]))

(* C24: when two concurrent writer calls that resolve to the same file     *)
(* name both make the existence check before either opens the file, both   *)
(* return success with the same path and one file remains; when the last   *)
(* writer opened the file after the other closed it, that file holds the   *)
(* content of the last writer only: the other bookmark is overwritten.     *)
C24_RaceOverwritesSilently ==
    (SameTarget /\ BothCheckedFirst)
        => /\ EventOf(1, "close").res.success
           /\ EventOf(2, "close").res.success
           /\ EventOf(1, "close").res.filename = EventOf(2, "close").res.filename
           /\ DOMAIN fs.files = {EventOf(1, "close").res.filename}
           /\ IndexOf(3 - LastWriter, "close") < IndexOf(LastWriter, "open")
                 => fs.files[EventOf(1, "close").res.filename]
                        = ContentOf(hist[1].calls[LastWriter])

(* two calls of different content for the same file name, both checked     *)
(* before either opened: both succeed, the first bookmark is gone          *)
C24_Witness ==
    /\ SameTarget /\ BothCheckedFirst
    /\ ContentOf(hist[1].calls[1]) # ContentOf(hist[1].calls[2])
    /\ IndexOf(1, "close") < IndexOf(2, "open")
    /\ EventOf(1, "close").res.success /\ EventOf(2, "close").res.success
    /\ DOMAIN fs.files = {EventOf(1, "close").res.filename}
    /\ fs.files[EventOf(1, "close").res.filename] = ContentOf(hist[1].calls[2])


====
